---- MODULE Spec2Model ----
(***************************************************************************)
(* Model of the decision core of LISA:                                     *)
(*   - TrainingMonitor   (src/lisa/core/monitoring.py)                     *)
(*   - StoppingCriteria  (src/lisa/core/stopping.py)                       *)
(*                                                                         *)
(* Floats are modelled as tagged values: a finite value is an integer      *)
(* number of fixed-point units, NaN and the two infinities are separate    *)
(* tokens, and Python's None is a token of its own.  Comparisons and       *)
(* subtraction follow IEEE-754 (every ordered comparison with NaN is       *)
(* false, inf - inf is NaN).  For the monitor one unit is 0.1; for the     *)
(* engine one unit is 0.01 and one hour is one tick of the clock.          *)
(***************************************************************************)
EXTENDS Integers, Sequences, FiniteSets, TLC

VARIABLES
    \* ---- TrainingMonitor fields
    patience, overfitting_threshold, convergence_threshold, convergence_window,
    epochs, train_metrics, val_metrics, learning_rates,
    best_val_metric, best_epoch, epochs_since_improvement,
    converged, overfitting_detected, anomaly_detected,
    recent_metrics,
    \* ---- StoppingCriteria fields and its caller's data
    config, campaign_start_time, experiment_history, clock,
    \* ---- the last call made and the value it returned
    ret

monVars == <<patience, overfitting_threshold, convergence_threshold,
             convergence_window, epochs, train_metrics, val_metrics,
             learning_rates, best_val_metric, best_epoch,
             epochs_since_improvement, converged, overfitting_detected,
             anomaly_detected, recent_metrics>>

engVars == <<config, campaign_start_time, experiment_history, clock>>

vars == <<monVars, engVars, ret>>

(***************************************************************************)
(* Bounds of the model.                                                    *)
(***************************************************************************)
MaxEpochs == 3

MaxHistory == 3

MaxClock == 2

\* Samples logged in AnomalySpec: check_anomalies reads the last two only
MaxAnomalyEpochs == 2

\* Samples logged in LiveSpec: with three values and a patience of 2 the
\* longest run that has not stopped is 0, 0, 3, 3, 5, 5
MaxLiveEpochs == 7

(***************************************************************************)
(* Float values.                                                           *)
(***************************************************************************)
None == [k |-> "none", v |-> 0]

NaN == [k |-> "nan", v |-> 0]

PInf == [k |-> "inf", v |-> 1]

NInf == [k |-> "inf", v |-> -1]

Fin(n) == [k |-> "fin", v |-> n]

IsNone(x) == x.k = "none"

isnan(x) == x.k = "nan"

isinf(x) == x.k = "inf"

\* -1, 0, 1 for -inf, finite, +inf
FClass(x) == IF x.k = "inf" THEN x.v ELSE 0

\* a > b on floats
FGt(a, b) ==
    /\ ~isnan(a)
    /\ ~isnan(b)
    /\ \/ FClass(a) > FClass(b)
       \/ FClass(a) = 0 /\ FClass(b) = 0 /\ a.v > b.v

\* a >= b on floats
FGe(a, b) ==
    /\ ~isnan(a)
    /\ ~isnan(b)
    /\ \/ FClass(a) > FClass(b)
       \/ FClass(a) = FClass(b) /\ (FClass(a) # 0 \/ a.v >= b.v)

\* a < b on floats
FLt(a, b) == FGt(b, a)

\* a - b on floats
FSub(a, b) ==
    IF isnan(a) \/ isnan(b) THEN NaN
    ELSE IF isinf(a) THEN (IF isinf(b) /\ b.v = a.v THEN NaN ELSE a)
    ELSE IF isinf(b) THEN [k |-> "inf", v |-> 0 - b.v]
    ELSE Fin(a.v - b.v)

\* abs(a) on floats
FAbs(a) ==
    IF isnan(a) THEN NaN
    ELSE IF isinf(a) THEN PInf
    ELSE Fin(IF a.v < 0 THEN 0 - a.v ELSE a.v)

Last(s) == s[Len(s)]

RECURSIVE SumSeq(_)
SumSeq(s) == IF s = <<>> THEN 0 ELSE Head(s) + SumSeq(Tail(s))

RECURSIVE SumSq(_)
SumSq(s) == IF s = <<>> THEN 0 ELSE Head(s) * Head(s) + SumSq(Tail(s))

AllFinite(s) == \A i \in 1..Len(s) : s[i].k = "fin"

Raw(s) == [i \in 1..Len(s) |-> s[i].v]

\* np.var(s) < thr, thr given in hundredths of a squared unit.
\* The population variance of n finite values is (n*sum(x^2) - sum(x)^2)/n^2;
\* it is NaN for an empty list and whenever a value is not finite, and
\* NaN < thr is false.
VarBelow(s, thr) ==
    /\ Len(s) > 0
    /\ AllFinite(s)
    /\ (Len(s) * SumSq(Raw(s)) - SumSeq(Raw(s)) * SumSeq(Raw(s))) * 100
          < thr.v * Len(s) * Len(s)

(***************************************************************************)
(* TrainingMonitor                                                         *)
(***************************************************************************)
\* `abs(recent_change) > 0.5`: 0.5 is 5 units of 0.1
SuddenChangeLimit == Fin(5)

\* `abs(train) > 1e6`: 1e6 is 10^7 units of 0.1
ExplodingLimit == Fin(10000000)

\* The values a training loop logs.
TrainVals == {Fin(5), NaN}

ValVals == {None, Fin(0), Fin(5), Fin(6), NaN}

LrVals == {None, Fin(1)}

\* The parameters a monitor is constructed with.
PatienceVals == {1, 2}

WindowVals == {2}

ConvThresholdVals == {Fin(100)}

OverfitThresholdVals == {Fin(1)}

\* A full deque that keeps its oldest values and drops the new one
DequeAppend_KeepOldest(d, x, maxlen) ==
    IF Len(d) >= maxlen THEN d ELSE Append(d, x)

\* deque(maxlen=n).append(x)
DequeAppend(d, x, maxlen) ==
    IF maxlen = 0 THEN <<>>
    ELSE IF Len(d) >= maxlen THEN Append(Tail(d), x)
    ELSE Append(d, x)

Void(op) == [op |-> op, val |-> <<>>]

\* No call has been made since the data last changed
NoCall == Void("<none>")

MonitorInit ==
    /\ patience \in PatienceVals
    /\ overfitting_threshold \in OverfitThresholdVals
    /\ convergence_threshold \in ConvThresholdVals
    /\ convergence_window \in WindowVals
    /\ epochs = <<>>
    /\ train_metrics = <<>>
    /\ val_metrics = <<>>
    /\ learning_rates = <<>>
    /\ best_val_metric = None
    /\ best_epoch = 0
    /\ epochs_since_improvement = 0
    /\ converged = FALSE
    /\ overfitting_detected = FALSE
    /\ anomaly_detected = FALSE
    /\ recent_metrics = <<>>

\* log_epoch with `>=` in place of `>`
IsNewBest_OrEqual(val_metric, best) == IsNone(best) \/ FGe(val_metric, best)

\* `val_metric > self.best_val_metric`, after the None test
IsNewBest(val_metric, best) == IsNone(best) \/ FGt(val_metric, best)

\* log_epoch counting a sample without val_metric as one without improvement
log_epoch_CountAll(epoch, train_metric, val_metric, learning_rate) ==
    /\ epochs' = Append(epochs, epoch)
    /\ train_metrics' = Append(train_metrics, train_metric)
    /\ IF ~IsNone(val_metric)
       THEN /\ val_metrics' = Append(val_metrics, val_metric)
            /\ recent_metrics' =
                   DequeAppend(recent_metrics, val_metric, convergence_window)
            /\ IF IsNewBest(val_metric, best_val_metric)
               THEN /\ best_val_metric' = val_metric
                    /\ best_epoch' = epoch
                    /\ epochs_since_improvement' = 0
               ELSE /\ epochs_since_improvement' = epochs_since_improvement + 1
                    /\ UNCHANGED <<best_val_metric, best_epoch>>
       ELSE /\ epochs_since_improvement' = epochs_since_improvement + 1
            /\ UNCHANGED <<val_metrics, recent_metrics, best_val_metric,
                           best_epoch>>
    /\ learning_rates' = IF ~IsNone(learning_rate)
                         THEN Append(learning_rates, learning_rate)
                         ELSE learning_rates
    /\ ret' = Void("log_epoch")
    /\ UNCHANGED <<patience, overfitting_threshold, convergence_threshold,
                   convergence_window, converged, overfitting_detected,
                   anomaly_detected>>
    /\ UNCHANGED engVars

log_epoch(epoch, train_metric, val_metric, learning_rate) ==
    /\ epochs' = Append(epochs, epoch)
    /\ train_metrics' = Append(train_metrics, train_metric)
    /\ IF ~IsNone(val_metric)
       THEN /\ val_metrics' = Append(val_metrics, val_metric)
            /\ recent_metrics' =
                   DequeAppend(recent_metrics, val_metric, convergence_window)
            /\ IF IsNewBest(val_metric, best_val_metric)
               THEN /\ best_val_metric' = val_metric
                    /\ best_epoch' = epoch
                    /\ epochs_since_improvement' = 0
               ELSE /\ epochs_since_improvement' = epochs_since_improvement + 1
                    /\ UNCHANGED <<best_val_metric, best_epoch>>
       ELSE UNCHANGED <<val_metrics, recent_metrics, best_val_metric,
                        best_epoch, epochs_since_improvement>>
    /\ learning_rates' = IF ~IsNone(learning_rate)
                         THEN Append(learning_rates, learning_rate)
                         ELSE learning_rates
    /\ ret' = Void("log_epoch")
    /\ UNCHANGED <<patience, overfitting_threshold, convergence_threshold,
                   convergence_window, converged, overfitting_detected,
                   anomaly_detected>>
    /\ UNCHANGED engVars

\* check_convergence answering from the converged flag once it has been set
ConvergenceResult_Sticky ==
    IF converged THEN <<TRUE, "converged">>
    ELSE IF Len(recent_metrics) < convergence_window
    THEN <<FALSE, "not_enough_data">>
    ELSE IF VarBelow(recent_metrics, convergence_threshold)
    THEN <<TRUE, "converged">>
    ELSE <<FALSE, "not_converged">>

\* The value check_convergence returns: <<converged, reason>>
ConvergenceResult ==
    IF Len(recent_metrics) < convergence_window
    THEN <<FALSE, "not_enough_data">>
    ELSE IF VarBelow(recent_metrics, convergence_threshold)
    THEN <<TRUE, "converged">>
    ELSE <<FALSE, "not_converged">>

\* check_overfitting with `gap >= self.overfitting_threshold`
OverfittingResult_OrEqual ==
    IF val_metrics = <<>> \/ train_metrics = <<>>
    THEN <<FALSE, "not_enough_data">>
    ELSE IF FGe(FSub(Last(train_metrics), Last(val_metrics)),
                overfitting_threshold)
    THEN <<TRUE, "overfitting">>
    ELSE <<FALSE, "no_overfitting">>

\* The value check_overfitting returns: <<overfitting, reason>>
OverfittingResult ==
    IF val_metrics = <<>> \/ train_metrics = <<>>
    THEN <<FALSE, "not_enough_data">>
    ELSE IF FGt(FSub(Last(train_metrics), Last(val_metrics)),
                overfitting_threshold)
    THEN <<TRUE, "overfitting">>
    ELSE <<FALSE, "no_overfitting">>

Issue(cond, name) == IF cond THEN <<name>> ELSE <<>>

\* check_anomalies returning at the first issue it finds
AnomalyIssues_FirstOnly ==
    IF train_metrics # <<>> /\ isnan(Last(train_metrics)) THEN <<"nan_train">>
    ELSE IF val_metrics # <<>> /\ isnan(Last(val_metrics)) THEN <<"nan_val">>
    ELSE IF train_metrics # <<>> /\ isinf(Last(train_metrics))
    THEN <<"inf_train">>
    ELSE IF val_metrics # <<>> /\ isinf(Last(val_metrics)) THEN <<"inf_val">>
    ELSE IF /\ Len(val_metrics) >= 2
            /\ FGt(FAbs(FSub(val_metrics[Len(val_metrics)],
                             val_metrics[Len(val_metrics) - 1])),
                   SuddenChangeLimit)
    THEN <<"sudden_change">>
    ELSE IF /\ train_metrics # <<>>
            /\ FGt(FAbs(Last(train_metrics)), ExplodingLimit)
    THEN <<"exploding_train">>
    ELSE <<>>

\* check_anomalies with `abs(recent_change) >= 0.5`
AnomalyIssues_OrEqual ==
    Issue(train_metrics # <<>> /\ isnan(Last(train_metrics)), "nan_train")
    \o Issue(val_metrics # <<>> /\ isnan(Last(val_metrics)), "nan_val")
    \o Issue(train_metrics # <<>> /\ isinf(Last(train_metrics)), "inf_train")
    \o Issue(val_metrics # <<>> /\ isinf(Last(val_metrics)), "inf_val")
    \o Issue(/\ Len(val_metrics) >= 2
             /\ FGe(FAbs(FSub(val_metrics[Len(val_metrics)],
                              val_metrics[Len(val_metrics) - 1])),
                    SuddenChangeLimit),
             "sudden_change")
    \o Issue(/\ train_metrics # <<>>
             /\ FGt(FAbs(Last(train_metrics)), ExplodingLimit),
             "exploding_train")

\* The list of issues check_anomalies builds, in the order it appends them
AnomalyIssues ==
    Issue(train_metrics # <<>> /\ isnan(Last(train_metrics)), "nan_train")
    \o Issue(val_metrics # <<>> /\ isnan(Last(val_metrics)), "nan_val")
    \o Issue(train_metrics # <<>> /\ isinf(Last(train_metrics)), "inf_train")
    \o Issue(val_metrics # <<>> /\ isinf(Last(val_metrics)), "inf_val")
    \o Issue(/\ Len(val_metrics) >= 2
             /\ FGt(FAbs(FSub(val_metrics[Len(val_metrics)],
                              val_metrics[Len(val_metrics) - 1])),
                    SuddenChangeLimit),
             "sudden_change")
    \o Issue(/\ train_metrics # <<>>
             /\ FGt(FAbs(Last(train_metrics)), ExplodingLimit),
             "exploding_train")

\* The value check_anomalies returns: <<has_anomaly, issues>>
AnomaliesResult == <<Len(AnomalyIssues) > 0, AnomalyIssues>>

monitorParams == <<patience, overfitting_threshold, convergence_threshold,
                   convergence_window>>

monitorHistory == <<epochs, train_metrics, val_metrics, learning_rates,
                    best_val_metric, best_epoch, epochs_since_improvement,
                    recent_metrics>>

check_convergence ==
    /\ converged' = (converged \/ ConvergenceResult[1])
    /\ ret' = [op |-> "check_convergence", val |-> ConvergenceResult]
    /\ UNCHANGED <<monitorParams, monitorHistory, overfitting_detected,
                   anomaly_detected>>
    /\ UNCHANGED engVars

check_overfitting ==
    /\ overfitting_detected' = (overfitting_detected \/ OverfittingResult[1])
    /\ ret' = [op |-> "check_overfitting", val |-> OverfittingResult]
    /\ UNCHANGED <<monitorParams, monitorHistory, converged, anomaly_detected>>
    /\ UNCHANGED engVars

check_anomalies ==
    /\ anomaly_detected' = (anomaly_detected \/ AnomaliesResult[1])
    /\ ret' = [op |-> "check_anomalies", val |-> AnomaliesResult]
    /\ UNCHANGED <<monitorParams, monitorHistory, converged,
                   overfitting_detected>>
    /\ UNCHANGED engVars

\* should_stop testing patience before anomalies and convergence
ShouldStopResult_PatienceFirst ==
    IF epochs_since_improvement >= patience THEN <<TRUE, <<"patience">>>>
    ELSE IF AnomaliesResult[1] THEN <<TRUE, <<"anomalies", AnomaliesResult[2]>>>>
    ELSE IF ConvergenceResult[1] THEN <<TRUE, <<"converged">>>>
    ELSE <<FALSE, <<"continue">>>>

\* The value should_stop returns: <<should_stop, reason>>.  The anomaly
\* reason carries the joined issues.
ShouldStopResult ==
    IF AnomaliesResult[1] THEN <<TRUE, <<"anomalies", AnomaliesResult[2]>>>>
    ELSE IF ConvergenceResult[1] THEN <<TRUE, <<"converged">>>>
    ELSE IF epochs_since_improvement >= patience THEN <<TRUE, <<"patience">>>>
    ELSE <<FALSE, <<"continue">>>>

\* should_stop calls check_anomalies, and check_convergence only when no
\* anomaly was found; each sets its flag.
should_stop ==
    /\ anomaly_detected' = (anomaly_detected \/ AnomaliesResult[1])
    /\ converged' = IF AnomaliesResult[1] THEN converged
                    ELSE (converged \/ ConvergenceResult[1])
    /\ ret' = [op |-> "should_stop", val |-> ShouldStopResult]
    /\ UNCHANGED <<monitorParams, monitorHistory, overfitting_detected>>
    /\ UNCHANGED engVars

\* reset leaving the best value and its epoch as they were
reset_KeepBest ==
    /\ epochs' = <<>>
    /\ train_metrics' = <<>>
    /\ val_metrics' = <<>>
    /\ learning_rates' = <<>>
    /\ epochs_since_improvement' = 0
    /\ converged' = FALSE
    /\ overfitting_detected' = FALSE
    /\ anomaly_detected' = FALSE
    /\ recent_metrics' = <<>>
    /\ ret' = Void("reset")
    /\ UNCHANGED <<best_val_metric, best_epoch>>
    /\ UNCHANGED monitorParams
    /\ UNCHANGED engVars

reset ==
    /\ epochs' = <<>>
    /\ train_metrics' = <<>>
    /\ val_metrics' = <<>>
    /\ learning_rates' = <<>>
    /\ best_val_metric' = None
    /\ best_epoch' = 0
    /\ epochs_since_improvement' = 0
    /\ converged' = FALSE
    /\ overfitting_detected' = FALSE
    /\ anomaly_detected' = FALSE
    /\ recent_metrics' = <<>>
    /\ ret' = Void("reset")
    /\ UNCHANGED monitorParams
    /\ UNCHANGED engVars

\* The learning rates a training loop may pass: a loop reports its learning
\* rate at every iteration or at none
LoopLrVals ==
    IF epochs = <<>> THEN LrVals
    ELSE IF learning_rates = <<>> THEN {None}
    ELSE LrVals \ {None}

\* The training loop: one log_epoch per iteration, iterations numbered from 1
LogEpoch ==
    /\ Len(epochs) < MaxEpochs
    /\ \E t \in TrainVals, v \in ValVals, lr \in LoopLrVals :
           log_epoch(Len(epochs) + 1, t, v, lr)

(***************************************************************************)
(* StoppingCriteria                                                        *)
(*                                                                         *)
(* A policy block is a dict; a key that is absent holds None (the metric   *)
(* name "<absent>"), and a block that is absent is the empty dict, which   *)
(* is what `self.config.get(name, {})` yields for it.                      *)
(***************************************************************************)
True == [k |-> "bool", v |-> 1]

False == [k |-> "bool", v |-> 0]

\* Python truthiness of a configuration value
Truthy(x) == ~IsNone(x) /\ x.v # 0

\* d.get(key, default), for the value x stored under the key
GetOr(x, default) == IF IsNone(x) THEN default ELSE x

MetricNames == {"f1_score"}

NoMetric == "<absent>"

EmptyPerformance == [enabled |-> None, metric |-> NoMetric, threshold |-> None]

EmptyImprovement ==
    [enabled |-> None, min_improvement_percent |-> None, window_size |-> None]

EmptyConvergence == [enabled |-> None, max_variance |-> None, window_size |-> None]

EmptyResources ==
    [enabled |-> None, max_experiments |-> None, max_time_hours |-> None]

\* The policies an engine is constructed with: every combination of the
\* blocks below, and the policies that leave some of the blocks out.
PerformanceBlocks ==
    [enabled : {True, False}, metric : {"f1_score"}, threshold : {Fin(20)}]
    \cup {[enabled |-> True, metric |-> NoMetric, threshold |-> Fin(20)]}

ImprovementBlocks ==
    {[enabled |-> False, min_improvement_percent |-> Fin(100),
      window_size |-> Fin(3)]}
    \cup [enabled : {True}, min_improvement_percent : {Fin(100)},
          window_size : {Fin(0), Fin(3)}]

ConvergenceBlocks ==
    {[enabled |-> False, max_variance |-> Fin(2500), window_size |-> Fin(2)]}
    \cup [enabled : {True}, max_variance : {Fin(2500)},
          window_size : {Fin(0), Fin(2)}]

ResourcesBlocks ==
    {[enabled |-> False, max_experiments |-> Fin(1), max_time_hours |-> Fin(1)],
     [enabled |-> True, max_experiments |-> Fin(3), max_time_hours |-> None],
     [enabled |-> True, max_experiments |-> None, max_time_hours |-> Fin(1)],
     [enabled |-> True, max_experiments |-> Fin(3), max_time_hours |-> Fin(1)],
     [enabled |-> True, max_experiments |-> Fin(0), max_time_hours |-> Fin(0)]}

FullConfigs ==
    [performance : PerformanceBlocks, improvement : ImprovementBlocks,
     convergence : ConvergenceBlocks, resources : ResourcesBlocks]

PartialConfigs ==
    [performance : {EmptyPerformance,
                    [enabled |-> True, metric |-> "f1_score",
                     threshold |-> Fin(20)]},
     improvement : {EmptyImprovement,
                    [enabled |-> True, min_improvement_percent |-> Fin(100),
                     window_size |-> Fin(3)]},
     convergence : {EmptyConvergence,
                    [enabled |-> True, max_variance |-> Fin(2500),
                     window_size |-> Fin(2)]},
     resources   : {EmptyResources,
                    [enabled |-> True, max_experiments |-> Fin(3),
                     max_time_hours |-> Fin(1)]}]

Configs == FullConfigs \cup PartialConfigs

\* The target-metric values an experiment reports (None: the record lacks
\* the metric).
MetricVals == {None, Fin(0), Fin(10), Fin(20)}

Experiment(x) == [metrics |-> [n \in MetricNames |-> x]]

\* `metric_name in metrics`
HasMetric(metrics, name) == name \in MetricNames /\ ~IsNone(metrics[name])

\* self.config.get('performance', {}).get('metric', 'f1_score')
TargetMetric(cfg) ==
    IF cfg.performance.metric = NoMetric THEN "f1_score"
    ELSE cfg.performance.metric

\* experiment_history[-window_size:] for window_size >= 0; -0 is 0, so a
\* window of 0 slices from the start
Recent(history, window_size) ==
    IF window_size = 0 \/ window_size >= Len(history) THEN history
    ELSE SubSeq(history, Len(history) - window_size + 1, Len(history))

\* [exp['metrics'][name] for exp in history if name in exp['metrics']]
RECURSIVE ExtractMetric(_, _)
ExtractMetric(history, name) ==
    IF history = <<>> THEN <<>>
    ELSE (IF HasMetric(Head(history).metrics, name)
          THEN <<Head(history).metrics[name]>> ELSE <<>>)
         \o ExtractMetric(Tail(history), name)

\* ((cur - prev) / prev) * 100 < min_pct, for prev > 0 and finite values
PctBelow(prev, cur, min_pct) == (cur.v - prev.v) * 100 < min_pct.v * prev.v

\* The indices i of metric_values whose pair (i-1, i) yields an improvement
ImprovementPairs(metric_values) ==
    {i \in 2..Len(metric_values) : FGt(metric_values[i - 1], Fin(0))}

\* _check_improvement_rate: <<should_stop, reason>>
check_improvement_rate(cfg, history, min_improvement_pct, window_size) ==
    LET metric_values ==
            ExtractMetric(Recent(history, window_size), TargetMetric(cfg))
    IN  IF Len(metric_values) < 2 THEN <<FALSE, "not_enough_data">>
        ELSE IF /\ ImprovementPairs(metric_values) # {}
                /\ \A i \in ImprovementPairs(metric_values) :
                       PctBelow(metric_values[i - 1], metric_values[i],
                                min_improvement_pct)
        THEN <<TRUE, "low_improvement">>
        ELSE <<FALSE, "improvement_acceptable">>

\* _check_convergence with `variance <= max_variance`
check_campaign_convergence_OrEqual(cfg, history, max_variance, window_size) ==
    LET metric_values ==
            ExtractMetric(Recent(history, window_size), TargetMetric(cfg))
    IN  IF Len(metric_values) < window_size THEN <<FALSE, "not_enough_data">>
        ELSE IF VarBelow(metric_values, Fin(max_variance.v + 1))
        THEN <<TRUE, "converged">>
        ELSE <<FALSE, "not_converged">>

\* _check_convergence: <<should_stop, reason>>
check_campaign_convergence(cfg, history, max_variance, window_size) ==
    LET metric_values ==
            ExtractMetric(Recent(history, window_size), TargetMetric(cfg))
    IN  IF Len(metric_values) < window_size THEN <<FALSE, "not_enough_data">>
        ELSE IF VarBelow(metric_values, max_variance)
        THEN <<TRUE, "converged">>
        ELSE <<FALSE, "not_converged">>

\* What a call that raises yields in place of a result
Raised == <<FALSE, "TypeError", "<raised>">>

\* A block taken as enabled whatever its flag
Enabled_Always(block) == TRUE

\* `perf_config.get('enabled', False)` and its like
Enabled(block) == Truthy(GetOr(block.enabled, False))

\* The campaign's test with `metrics[metric_name] > threshold`
MeetsThreshold_Strict(metrics, name, threshold) ==
    HasMetric(metrics, name) /\ FGt(metrics[name], threshold)

\* `metric_name in metrics and metrics[metric_name] >= threshold`, for a
\* record that has the metric; comparing a float with None raises TypeError
MeetsThreshold(metrics, name, threshold) ==
    HasMetric(metrics, name) /\ FGe(metrics[name], threshold)

\* should_stop_experiment with `metric_value > threshold`
should_stop_experiment_Strict(cfg, metrics, experiment_time_minutes) ==
    LET perf_config == cfg.performance
        metric_name == perf_config.metric
        threshold   == perf_config.threshold
    IN  IF Enabled(perf_config) /\ HasMetric(metrics, metric_name)
        THEN IF IsNone(threshold) THEN Raised
             ELSE IF FGt(metrics[metric_name], threshold)
             THEN <<TRUE, "performance", "STOP_CAMPAIGN">>
             ELSE <<FALSE, "completed", "CONTINUE">>
        ELSE <<FALSE, "completed", "CONTINUE">>

\* should_stop_experiment: <<should_stop, reason, next_action>>
should_stop_experiment(cfg, metrics, experiment_time_minutes) ==
    LET perf_config == cfg.performance
        metric_name == perf_config.metric
        threshold   == perf_config.threshold
    IN  IF Enabled(perf_config) /\ HasMetric(metrics, metric_name)
        THEN IF IsNone(threshold) THEN Raised
             ELSE IF FGe(metrics[metric_name], threshold)
             THEN <<TRUE, "performance", "STOP_CAMPAIGN">>
             ELSE <<FALSE, "completed", "CONTINUE">>
        ELSE <<FALSE, "completed", "CONTINUE">>

\* The performance block looking at the latest record only
PerformanceCheck_LastOnly(cfg, history) ==
    LET perf_config == cfg.performance
        metric_name == perf_config.metric
        threshold   == perf_config.threshold
    IN  IF ~Enabled(perf_config) THEN "pass"
        ELSE IF history = <<>> \/ ~HasMetric(Last(history).metrics, metric_name)
        THEN "pass"
        ELSE IF IsNone(threshold) THEN "raise"
        ELSE IF MeetsThreshold(Last(history).metrics, metric_name, threshold)
        THEN "stop"
        ELSE "pass"

\* Block 1 of should_stop_campaign: "stop", "raise" or "pass".  The loop
\* raises at the first record that has the metric when no threshold is set.
PerformanceCheck(cfg, history) ==
    LET perf_config == cfg.performance
        metric_name == perf_config.metric
        threshold   == perf_config.threshold
    IN  IF ~Enabled(perf_config) THEN "pass"
        ELSE IF \A i \in 1..Len(history) :
                    ~HasMetric(history[i].metrics, metric_name)
        THEN "pass"
        ELSE IF IsNone(threshold) THEN "raise"
        ELSE IF \E i \in 1..Len(history) :
                    MeetsThreshold(history[i].metrics, metric_name, threshold)
        THEN "stop"
        ELSE "pass"

\* Block 2 of should_stop_campaign
ImprovementCheck(cfg, history) ==
    LET improvement_config  == cfg.improvement
        min_improvement_pct ==
            GetOr(improvement_config.min_improvement_percent, Fin(1))
        window_size == GetOr(improvement_config.window_size, Fin(5))
    IN  /\ Enabled(improvement_config)
        /\ Len(history) >= window_size.v
        /\ check_improvement_rate(cfg, history, min_improvement_pct,
                                  window_size.v)[1]

\* Block 3 of should_stop_campaign; the default max_variance 0.01 is 10000
\* hundredths of a squared unit
ConvergenceCheck(cfg, history) ==
    LET convergence_config == cfg.convergence
        max_variance == GetOr(convergence_config.max_variance, Fin(10000))
        window_size  == GetOr(convergence_config.window_size, Fin(10))
    IN  /\ Enabled(convergence_config)
        /\ Len(history) >= window_size.v
        /\ check_campaign_convergence(cfg, history, max_variance,
                                      window_size.v)[1]

\* The resources block with `len(experiment_history) > max_experiments`
ResourcesCheck_CountStrict(cfg, start_time, history, current_time) ==
    LET resource_config == cfg.resources
        max_experiments == resource_config.max_experiments
        max_hours       == resource_config.max_time_hours
    IN  IF ~Enabled(resource_config) THEN "pass"
        ELSE IF Truthy(max_experiments) /\ Len(history) > max_experiments.v
        THEN "max_experiments"
        ELSE IF Truthy(max_hours) /\ current_time - start_time >= max_hours.v
        THEN "max_time"
        ELSE "pass"

\* The resources block measuring time from 0 instead of from the start
\* timestamp
ResourcesCheck_NoStart(cfg, start_time, history, current_time) ==
    LET resource_config == cfg.resources
        max_experiments == resource_config.max_experiments
        max_hours       == resource_config.max_time_hours
    IN  IF ~Enabled(resource_config) THEN "pass"
        ELSE IF Truthy(max_experiments) /\ Len(history) >= max_experiments.v
        THEN "max_experiments"
        ELSE IF Truthy(max_hours) /\ current_time >= max_hours.v
        THEN "max_time"
        ELSE "pass"

\* Block 4 of should_stop_campaign: "max_experiments", "max_time" or "pass"
ResourcesCheck(cfg, start_time, history, current_time) ==
    LET resource_config == cfg.resources
        max_experiments == resource_config.max_experiments
        max_hours       == resource_config.max_time_hours
    IN  IF ~Enabled(resource_config) THEN "pass"
        ELSE IF Truthy(max_experiments) /\ Len(history) >= max_experiments.v
        THEN "max_experiments"
        ELSE IF Truthy(max_hours) /\ current_time - start_time >= max_hours.v
        THEN "max_time"
        ELSE "pass"

\* should_stop_campaign with the convergence block tested before the
\* improvement block
should_stop_campaign_ConvergenceFirst(cfg, start_time, history, current_time) ==
    IF history = <<>> THEN <<FALSE, "no_experiments", "CONTINUE">>
    ELSE IF PerformanceCheck(cfg, history) = "raise" THEN Raised
    ELSE IF PerformanceCheck(cfg, history) = "stop"
    THEN <<TRUE, "performance", "STOP">>
    ELSE IF ConvergenceCheck(cfg, history)
    THEN <<TRUE, "converged", "STOP">>
    ELSE IF ImprovementCheck(cfg, history)
    THEN <<TRUE, "low_improvement", "TRY_DIFFERENT_MODEL">>
    ELSE IF ResourcesCheck(cfg, start_time, history, current_time) # "pass"
    THEN <<TRUE, ResourcesCheck(cfg, start_time, history, current_time), "STOP">>
    ELSE <<FALSE, "continue", "CONTINUE">>

\* should_stop_campaign: <<should_stop, reason, next_action>>
should_stop_campaign(cfg, start_time, history, current_time) ==
    IF history = <<>> THEN <<FALSE, "no_experiments", "CONTINUE">>
    ELSE IF PerformanceCheck(cfg, history) = "raise" THEN Raised
    ELSE IF PerformanceCheck(cfg, history) = "stop"
    THEN <<TRUE, "performance", "STOP">>
    ELSE IF ImprovementCheck(cfg, history)
    THEN <<TRUE, "low_improvement", "TRY_DIFFERENT_MODEL">>
    ELSE IF ConvergenceCheck(cfg, history)
    THEN <<TRUE, "converged", "STOP">>
    ELSE IF ResourcesCheck(cfg, start_time, history, current_time) # "pass"
    THEN <<TRUE, ResourcesCheck(cfg, start_time, history, current_time), "STOP">>
    ELSE <<FALSE, "continue", "CONTINUE">>

\* StoppingCriteria(criteria_config): the start timestamp is the time of
\* construction
EngineConstructed(cfg) ==
    /\ config = cfg
    /\ clock = 1
    /\ campaign_start_time = clock
    /\ experiment_history = <<>>

\* The orchestrator appends the record of a finished run to its history
RunExperiment ==
    /\ Len(experiment_history) < MaxHistory
    /\ \E x \in MetricVals :
           experiment_history' = Append(experiment_history, Experiment(x))
    /\ ret' = NoCall
    /\ UNCHANGED <<config, campaign_start_time, clock>>
    /\ UNCHANGED monVars

\* An hour of wall-clock time passes
Tick ==
    /\ clock < MaxClock
    /\ clock' = clock + 1
    /\ ret' = NoCall
    /\ UNCHANGED <<config, campaign_start_time, experiment_history>>
    /\ UNCHANGED monVars

\* should_stop_campaign dropping the oldest record of the history it is given
ShouldStopCampaign_Trimming ==
    /\ ret' = [op  |-> "should_stop_campaign",
               val |-> should_stop_campaign(config, campaign_start_time,
                                            experiment_history, clock)]
    /\ experiment_history' = IF experiment_history = <<>> THEN <<>>
                             ELSE Tail(experiment_history)
    /\ UNCHANGED <<config, campaign_start_time, clock>>
    /\ UNCHANGED monVars

ShouldStopCampaign ==
    /\ ret' = [op  |-> "should_stop_campaign",
               val |-> should_stop_campaign(config, campaign_start_time,
                                            experiment_history, clock)]
    /\ UNCHANGED engVars
    /\ UNCHANGED monVars

ShouldStopExperiment ==
    /\ \E x \in MetricVals, minutes \in {None, Fin(5)} :
           ret' = [op  |-> "should_stop_experiment",
                   val |-> should_stop_experiment(config, Experiment(x).metrics,
                                                  minutes),
                   arg |-> Experiment(x).metrics]
    /\ UNCHANGED engVars
    /\ UNCHANGED monVars

(***************************************************************************)
(* Specifications.  MonitorSpec: one monitor, fed by a training loop and   *)
(* queried at will.  EngineSpec: one engine over a growing campaign.       *)
(***************************************************************************)
NoPolicy ==
    [performance |-> EmptyPerformance, improvement |-> EmptyImprovement,
     convergence |-> EmptyConvergence, resources |-> EmptyResources]

MonInit ==
    /\ MonitorInit
    /\ EngineConstructed(NoPolicy)
    /\ ret = NoCall

MonNext ==
    \/ LogEpoch
    \/ check_convergence
    \/ check_overfitting
    \/ check_anomalies
    \/ should_stop
    \/ reset

MonitorSpec == MonInit /\ [][MonNext]_vars

EngInit ==
    /\ \E cfg \in Configs : EngineConstructed(cfg)
    /\ patience = 1
    /\ overfitting_threshold = Fin(1)
    /\ convergence_threshold = Fin(100)
    /\ convergence_window = 2
    /\ epochs = <<>>
    /\ train_metrics = <<>>
    /\ val_metrics = <<>>
    /\ learning_rates = <<>>
    /\ best_val_metric = None
    /\ best_epoch = 0
    /\ epochs_since_improvement = 0
    /\ converged = FALSE
    /\ overfitting_detected = FALSE
    /\ anomaly_detected = FALSE
    /\ recent_metrics = <<>>
    /\ ret = NoCall

EngNext ==
    \/ RunExperiment
    \/ Tick
    \/ ShouldStopCampaign
    \/ ShouldStopExperiment

EngineSpec == EngInit /\ [][EngNext]_vars

(***************************************************************************)
(* Properties of the monitor (MonitorSpec)                                 *)
(***************************************************************************)

\* C1: a log_epoch call that carries a val_metric sets
\* epochs_since_improvement to 0 exactly when the value is the first one or
\* strictly greater than the best so far, and adds 1 to it otherwise; a tie
\* with the best does not reset it.
C1_PatienceCounter ==
    [][Len(val_metrics') = Len(val_metrics) + 1 =>
          LET v == val_metrics'[Len(val_metrics')]
          IN  /\ (IsNone(best_val_metric) \/ FGt(v, best_val_metric))
                     => epochs_since_improvement' = 0
              /\ ~(IsNone(best_val_metric) \/ FGt(v, best_val_metric))
                     => /\ epochs_since_improvement'
                               = epochs_since_improvement + 1
                        /\ epochs_since_improvement' # 0]_vars

\* A tie with the best value has been logged and the counter kept counting.
C1_Witness ==
    /\ Len(val_metrics) >= 2
    /\ val_metrics[Len(val_metrics)] = best_val_metric
    /\ val_metrics[Len(val_metrics) - 1] = best_val_metric
    /\ ~isnan(best_val_metric)
    /\ epochs_since_improvement >= 1

HasAnomaly == AnomalyIssues # <<>>

WindowConverged ==
    /\ Len(recent_metrics) >= convergence_window
    /\ VarBelow(recent_metrics, convergence_threshold)

PatienceExhausted == epochs_since_improvement >= patience

\* C2: should_stop returns the first of anomaly, convergence and patience
\* exhaustion that holds: the anomaly reason whenever there is an anomaly,
\* the convergence reason when there is none and the window has converged,
\* the patience reason when only patience is exhausted, and
\* (False, continue) when none holds.
C2_StopPriority ==
    ret.op = "should_stop" =>
        /\ HasAnomaly => ret.val = <<TRUE, <<"anomalies", AnomalyIssues>>>>
        /\ ~HasAnomaly /\ WindowConverged => ret.val = <<TRUE, <<"converged">>>>
        /\ ~HasAnomaly /\ ~WindowConverged /\ PatienceExhausted
               => ret.val = <<TRUE, <<"patience">>>>
        /\ ~HasAnomaly /\ ~WindowConverged /\ ~PatienceExhausted
               => ret.val = <<FALSE, <<"continue">>>>

\* should_stop was asked with an anomaly and exhausted patience at once.
C2_Witness ==
    /\ ret.op = "should_stop"
    /\ HasAnomaly
    /\ PatienceExhausted
    /\ ret.val[2][1] = "anomalies"

(***************************************************************************)
(* Properties of the engine (EngineSpec)                                   *)
(***************************************************************************)
Campaign == ret.op = "should_stop_campaign"

\* The last n records of a history, none when n = 0
LastN(history, n) ==
    IF n >= Len(history) THEN history
    ELSE SubSeq(history, Len(history) - n + 1, Len(history))

PerformanceTriggers == PerformanceCheck(config, experiment_history) = "stop"

ImprovementTriggers == ImprovementCheck(config, experiment_history)

ConvergenceTriggers == ConvergenceCheck(config, experiment_history)

ResourcesTriggers ==
    ResourcesCheck(config, campaign_start_time, experiment_history, clock)
        # "pass"

SeveralTrigger ==
    \/ PerformanceTriggers
           /\ (ImprovementTriggers \/ ConvergenceTriggers \/ ResourcesTriggers)
    \/ ImprovementTriggers /\ (ConvergenceTriggers \/ ResourcesTriggers)
    \/ ConvergenceTriggers /\ ResourcesTriggers

\* C3: should_stop_campaign answers for the earliest block that triggers in
\* the order performance, improvement, convergence, resources: when several
\* blocks trigger on a history the action is the earliest one's (STOP for
\* performance with improvement, TRY_DIFFERENT_MODEL for improvement with
\* convergence or resources).
C3_BlockOrder ==
    Campaign /\ (experiment_history # <<>> \/ SeveralTrigger) =>
        /\ PerformanceTriggers => ret.val = <<TRUE, "performance", "STOP">>
        /\ ~PerformanceTriggers /\ ImprovementTriggers
               => ret.val = <<TRUE, "low_improvement", "TRY_DIFFERENT_MODEL">>
        /\ ~PerformanceTriggers /\ ~ImprovementTriggers /\ ConvergenceTriggers
               => ret.val = <<TRUE, "converged", "STOP">>
        /\ ~PerformanceTriggers /\ ~ImprovementTriggers /\ ~ConvergenceTriggers
             /\ ResourcesTriggers
               => ret.val[1] /\ ret.val[3] = "STOP"
                     /\ ret.val[2] \in {"max_experiments", "max_time"}

\* The campaign was judged on a history that triggers improvement,
\* convergence and resources at once.
C3_Witness ==
    /\ Campaign
    /\ ~PerformanceTriggers
    /\ ImprovementTriggers
    /\ ConvergenceTriggers
    /\ ResourcesTriggers
    /\ ret.val[3] = "TRY_DIFFERENT_MODEL"

\* Some record of the history has the metric the performance block names,
\* at or above its threshold
SomeRecordMeetsThreshold ==
    \E i \in 1..Len(experiment_history) :
        /\ HasMetric(experiment_history[i].metrics, config.performance.metric)
        /\ FGe(experiment_history[i].metrics[config.performance.metric],
               config.performance.threshold)

\* C4: with the performance block enabled, should_stop_campaign returns
\* (True, performance reason, STOP) whenever a record at any position has the
\* target metric at or above the threshold, and the performance block does
\* not trigger when no record has.
C4_AnyRecordMeetsThreshold ==
    Campaign /\ Enabled(config.performance) =>
        /\ SomeRecordMeetsThreshold => ret.val = <<TRUE, "performance", "STOP">>
        /\ ~SomeRecordMeetsThreshold => ret.val[2] # "performance"

\* The campaign was stopped for a record that is not the last one.
C4_Witness ==
    /\ Campaign
    /\ Enabled(config.performance)
    /\ Len(experiment_history) >= 2
    /\ SomeRecordMeetsThreshold
    /\ ~MeetsThreshold(Last(experiment_history).metrics,
                       config.performance.metric, config.performance.threshold)
    /\ ret.val = <<TRUE, "performance", "STOP">>

\* The parameters the improvement and convergence blocks are read with
ImprovementWindow == GetOr(config.improvement.window_size, Fin(5)).v

MinImprovementPct == GetOr(config.improvement.min_improvement_percent, Fin(1))

ConvergenceWindow == GetOr(config.convergence.window_size, Fin(10)).v

MaxVariance == GetOr(config.convergence.max_variance, Fin(10000))

\* The target-metric values of the last n records
WindowValues(n) ==
    ExtractMetric(LastN(experiment_history, n), TargetMetric(config))

\* The improvement condition as the claim states it
LowImprovementStated ==
    LET vals == WindowValues(ImprovementWindow)
    IN  /\ Len(experiment_history) >= ImprovementWindow
        /\ Len(vals) >= 2
        /\ \E i \in 2..Len(vals) : FGt(vals[i - 1], Fin(0))
        /\ \A i \in 2..Len(vals) :
               FGt(vals[i - 1], Fin(0))
                   => PctBelow(vals[i - 1], vals[i], MinImprovementPct)

\* C5: with the improvement block enabled and performance not triggering,
\* should_stop_campaign returns (True, reason, TRY_DIFFERENT_MODEL) exactly
\* when the history has at least window_size records, the last window_size
\* records yield at least two target-metric values, some consecutive pair
\* has a positive earlier value, and every percentage change over such pairs
\* is strictly below min_improvement_percent.
C5_LowImprovementExactly ==
    Campaign /\ Enabled(config.improvement) /\ ~PerformanceTriggers =>
        (ret.val = <<TRUE, "low_improvement", "TRY_DIFFERENT_MODEL">>
            <=> LowImprovementStated)

\* np.var(s) >= thr
VarAtLeast(s, thr) ==
    /\ Len(s) > 0
    /\ AllFinite(s)
    /\ (Len(s) * SumSq(Raw(s)) - SumSeq(Raw(s)) * SumSeq(Raw(s))) * 100
          >= thr.v * Len(s) * Len(s)

\* Every one of the last n records has the target metric
WindowComplete(n) ==
    \A i \in 1..Len(LastN(experiment_history, n)) :
        HasMetric(LastN(experiment_history, n)[i].metrics, TargetMetric(config))

ConvergenceReached ==
    Campaign /\ Enabled(config.convergence) /\ ~PerformanceTriggers
        /\ ~ImprovementTriggers

\* C6 as stated: with the convergence block enabled and neither performance
\* nor improvement triggering, should_stop_campaign returns (True, reason,
\* STOP) when the history has at least window_size records and the
\* population variance of the target-metric values of the last window_size
\* records is strictly below max_variance; it does not trigger on a shorter
\* history or when the variance is >= max_variance.
C6_ConvergenceStated ==
    ConvergenceReached =>
        /\ (/\ Len(experiment_history) >= ConvergenceWindow
            /\ VarBelow(WindowValues(ConvergenceWindow), MaxVariance))
               => ret.val = <<TRUE, "converged", "STOP">>
        /\ (\/ Len(experiment_history) < ConvergenceWindow
            \/ VarAtLeast(WindowValues(ConvergenceWindow), MaxVariance))
               => ret.val[2] # "converged"

\* C6 amended: as C6, provided every one of the last window_size records
\* contains the target metric; a window with a record that lacks it is
\* "not enough data" and does not trigger.
C6_ConvergenceFullWindow ==
    ConvergenceReached =>
        /\ (/\ Len(experiment_history) >= ConvergenceWindow
            /\ WindowComplete(ConvergenceWindow)
            /\ VarBelow(WindowValues(ConvergenceWindow), MaxVariance))
               => ret.val = <<TRUE, "converged", "STOP">>
        /\ (\/ Len(experiment_history) < ConvergenceWindow
            \/ VarAtLeast(WindowValues(ConvergenceWindow), MaxVariance))
               => ret.val[2] # "converged"

\* The campaign was judged on a history longer than the window whose last
\* window_size records all have the metric, with a variance just at and just
\* below max_variance seen by the block.
C6_Witness ==
    /\ ConvergenceReached
    /\ ConvergenceWindow = 2
    /\ Len(experiment_history) > ConvergenceWindow
    /\ WindowComplete(ConvergenceWindow)
    /\ VarBelow(WindowValues(ConvergenceWindow), MaxVariance)
    /\ ret.val = <<TRUE, "converged", "STOP">>

EarlierBlocksPass ==
    ~PerformanceTriggers /\ ~ImprovementTriggers /\ ~ConvergenceTriggers

MaxExperiments == config.resources.max_experiments

MaxTimeHours == config.resources.max_time_hours

\* C7 as stated: with the resources block enabled and max_experiments
\* given, on every history on which the earlier blocks do not trigger
\* should_stop_campaign returns (True, reason, STOP) whenever the number of
\* experiments is >= max_experiments, and the count check never triggers
\* below max_experiments.
C7_MaxExperimentsStated ==
    Campaign /\ Enabled(config.resources) /\ ~IsNone(MaxExperiments) =>
        /\ EarlierBlocksPass /\ Len(experiment_history) >= MaxExperiments.v
               => ret.val[1] /\ ret.val[3] = "STOP"
        /\ Len(experiment_history) < MaxExperiments.v
               => ret.val[2] # "max_experiments"

\* C7 amended: the same for a max_experiments that is not 0; a
\* max_experiments of 0 is taken as no limit.
C7_MaxExperimentsNonZero ==
    Campaign /\ Enabled(config.resources) /\ ~IsNone(MaxExperiments)
        /\ MaxExperiments.v # 0 =>
        /\ EarlierBlocksPass /\ Len(experiment_history) >= MaxExperiments.v
               => ret.val = <<TRUE, "max_experiments", "STOP">>
        /\ Len(experiment_history) < MaxExperiments.v
               => ret.val[2] # "max_experiments"

\* The campaign was stopped on the count of experiments alone.
C7_Witness ==
    /\ Campaign
    /\ Enabled(config.resources)
    /\ EarlierBlocksPass
    /\ ~IsNone(MaxExperiments)
    /\ Len(experiment_history) = MaxExperiments.v
    /\ clock = campaign_start_time
    /\ ret.val = <<TRUE, "max_experiments", "STOP">>

CountCheckPasses ==
    ~(Truthy(MaxExperiments) /\ Len(experiment_history) >= MaxExperiments.v)

Elapsed == clock - campaign_start_time

\* C8 as stated: with the resources block enabled and max_time_hours set,
\* on every history, the empty one included, on which no earlier check
\* triggers, should_stop_campaign returns (True, reason, STOP) if and only
\* if the time elapsed since construction is >= max_time_hours.
C8_MaxTimeStated ==
    Campaign /\ Enabled(config.resources) /\ Truthy(MaxTimeHours)
        /\ EarlierBlocksPass /\ CountCheckPasses =>
        ((ret.val[1] /\ ret.val[3] = "STOP") <=> Elapsed >= MaxTimeHours.v)

\* C8 amended: the same on every history that is not empty; on the empty
\* history the answer is (False, no experiments yet, CONTINUE) whatever the
\* elapsed time.
C8_MaxTimeNonEmpty ==
    Campaign /\ Enabled(config.resources) /\ Truthy(MaxTimeHours)
        /\ EarlierBlocksPass /\ CountCheckPasses =>
        /\ experiment_history # <<>> =>
               (ret.val = <<TRUE, "max_time", "STOP">>
                    <=> Elapsed >= MaxTimeHours.v)
        /\ experiment_history = <<>> =>
               ret.val = <<FALSE, "no_experiments", "CONTINUE">>

\* The campaign was stopped on elapsed time alone.
C8_Witness ==
    /\ Campaign
    /\ EarlierBlocksPass
    /\ CountCheckPasses
    /\ experiment_history # <<>>
    /\ Elapsed >= 1
    /\ ret.val = <<TRUE, "max_time", "STOP">>

\* The block is absent, or has no `enabled` key, or has it false
IsOff(block) == IsNone(block.enabled) \/ block.enabled = False

AllBlocksOff ==
    /\ IsOff(config.performance)
    /\ IsOff(config.improvement)
    /\ IsOff(config.convergence)
    /\ IsOff(config.resources)

\* A block that is disabled or absent is not the one a stop is due to.
DisabledBlocksSilent ==
    /\ Campaign =>
        /\ IsOff(config.performance) => ret.val[2] # "performance"
        /\ IsOff(config.improvement) => ret.val[2] # "low_improvement"
        /\ IsOff(config.convergence) => ret.val[2] # "converged"
        /\ IsOff(config.resources)
               => ret.val[2] \notin {"max_experiments", "max_time"}
    /\ ret.op = "should_stop_experiment" /\ IsOff(config.performance)
           => ~ret.val[1] /\ ret.val[3] = "CONTINUE"

\* C9 as stated: a disabled or absent block never causes a stop, and with
\* every block disabled or absent should_stop_campaign returns (False,
\* continue, CONTINUE) and should_stop_experiment (False, ..., CONTINUE) on
\* every input.
C9_DisabledStated ==
    /\ DisabledBlocksSilent
    /\ Campaign /\ AllBlocksOff => ret.val = <<FALSE, "continue", "CONTINUE">>

\* C9 amended: the same, except that on the empty history the campaign
\* answer is (False, no experiments yet, CONTINUE).
C9_DisabledSkipped ==
    /\ DisabledBlocksSilent
    /\ Campaign /\ AllBlocksOff =>
           ret.val = IF experiment_history = <<>>
                     THEN <<FALSE, "no_experiments", "CONTINUE">>
                     ELSE <<FALSE, "continue", "CONTINUE">>

\* The campaign was judged with every block off, the blocks all present and
\* disabled, on a full history with a record at the threshold and after the
\* time limit.
C9_Witness ==
    /\ Campaign
    /\ AllBlocksOff
    /\ config \in FullConfigs
    /\ Len(experiment_history) = MaxHistory
    /\ SomeRecordMeetsThreshold
    /\ Elapsed >= 1
    /\ ret.val = <<FALSE, "continue", "CONTINUE">>

\* C10: should_stop_experiment returns (True, reason, STOP_CAMPAIGN) if and
\* only if the performance block is enabled and the given metrics have the
\* target metric at or above the threshold, and (False, ..., CONTINUE) in
\* every other case, whatever the other blocks and the experiment time.
C10_ExperimentPerformanceOnly ==
    ret.op = "should_stop_experiment" =>
        IF /\ Enabled(config.performance)
           /\ HasMetric(ret.arg, config.performance.metric)
           /\ FGe(ret.arg[config.performance.metric],
                  config.performance.threshold)
        THEN ret.val = <<TRUE, "performance", "STOP_CAMPAIGN">>
        ELSE ~ret.val[1] /\ ret.val[3] = "CONTINUE"

\* An experiment exactly at the threshold was judged by an engine whose
\* other blocks are all enabled.
C10_Witness ==
    /\ ret.op = "should_stop_experiment"
    /\ Enabled(config.performance)
    /\ Enabled(config.improvement)
    /\ Enabled(config.convergence)
    /\ Enabled(config.resources)
    /\ HasMetric(ret.arg, config.performance.metric)
    /\ ret.arg[config.performance.metric] = config.performance.threshold
    /\ ret.val = <<TRUE, "performance", "STOP_CAMPAIGN">>

(***************************************************************************)
(* Level 1: the engine asked about a training run (TrainingSpec)           *)
(***************************************************************************)
\* The `patience` argument a caller passes to should_stop_training
PatienceArgs == {None, Fin(0), Fin(1)}

\* should_stop_training taking its `patience` argument in place of the
\* monitor's own patience
should_stop_training_Override(cfg, patience_arg) ==
    IF AnomaliesResult[1] THEN <<TRUE, <<"anomalies", AnomaliesResult[2]>>>>
    ELSE IF ConvergenceResult[1] THEN <<TRUE, <<"converged">>>>
    ELSE IF epochs_since_improvement
                >= (IF IsNone(patience_arg) THEN patience ELSE patience_arg.v)
    THEN <<TRUE, <<"patience">>>>
    ELSE <<FALSE, <<"continue">>>>

\* should_stop_training: `return monitor.should_stop()`
should_stop_training(cfg, patience_arg) == ShouldStopResult

\* The call runs monitor.should_stop(), which sets the monitor's flags
ShouldStopTraining ==
    /\ \E p \in PatienceArgs :
           ret' = [op  |-> "should_stop_training",
                   val |-> should_stop_training(config, p),
                   arg |-> p]
    /\ anomaly_detected' = (anomaly_detected \/ AnomaliesResult[1])
    /\ converged' = IF AnomaliesResult[1] THEN converged
                    ELSE (converged \/ ConvergenceResult[1])
    /\ UNCHANGED <<monitorParams, monitorHistory, overfitting_detected>>
    /\ UNCHANGED engVars

\* An engine without a policy and one with every block enabled
TrainingConfigs ==
    {NoPolicy,
     [performance |-> [enabled |-> True, metric |-> "f1_score",
                       threshold |-> Fin(20)],
      improvement |-> [enabled |-> True, min_improvement_percent |-> Fin(100),
                       window_size |-> Fin(3)],
      convergence |-> [enabled |-> True, max_variance |-> Fin(2500),
                       window_size |-> Fin(2)],
      resources   |-> [enabled |-> True, max_experiments |-> Fin(3),
                       max_time_hours |-> Fin(1)]]}

TrainingInit ==
    /\ MonitorInit
    /\ \E cfg \in TrainingConfigs : EngineConstructed(cfg)
    /\ ret = NoCall

TrainingNext ==
    \/ LogEpoch
    \/ should_stop
    \/ ShouldStopTraining

TrainingSpec == TrainingInit /\ [][TrainingNext]_vars

Precision == 3

RECURSIVE Pow2(_)
Pow2(k) == IF k = 0 THEN 1 ELSE 2 * Pow2(k - 1)

\* a / b rounded to the nearest integer, ties to even (a >= 0, b > 0)
RoundHalfEven(a, b) ==
    LET q == a \div b
        r == a % b
    IN  IF 2 * r < b THEN q
        ELSE IF 2 * r > b THEN q + 1
        ELSE q + (q % 2)

\* The float nearest sign * num / den (num >= 0, den > 0)
Nearest(sign, num, den) ==
    IF num = 0 THEN [m |-> 0, e |-> 0]
    ELSE LET t == CHOOSE t \in -12..12 :
                      IF t >= 0
                      THEN /\ Pow2(Precision - 1) * den * Pow2(t) <= num
                           /\ num < Pow2(Precision) * den * Pow2(t)
                      ELSE /\ Pow2(Precision - 1) * den <= num * Pow2(0 - t)
                           /\ num * Pow2(0 - t) < Pow2(Precision) * den
             m == IF t >= 0 THEN RoundHalfEven(num, den * Pow2(t))
                  ELSE RoundHalfEven(num * Pow2(0 - t), den)
         IN  [m |-> sign * m, e |-> t]

\* The value of a float as a fraction <<numerator, denominator>>
Rat(x) == IF x.e >= 0 THEN <<x.m * Pow2(x.e), 1>> ELSE <<x.m, Pow2(0 - x.e)>>

\* The float nearest a fraction
Round(r) ==
    IF r[1] < 0 THEN Nearest(-1, 0 - r[1], r[2]) ELSE Nearest(1, r[1], r[2])

\* a + b, a - b, a * b and a / n on floats
BAdd(a, b) ==
    Round(<<Rat(a)[1] * Rat(b)[2] + Rat(b)[1] * Rat(a)[2], Rat(a)[2] * Rat(b)[2]>>)

BSub(a, b) ==
    Round(<<Rat(a)[1] * Rat(b)[2] - Rat(b)[1] * Rat(a)[2], Rat(a)[2] * Rat(b)[2]>>)

BMul(a, b) == Round(<<Rat(a)[1] * Rat(b)[1], Rat(a)[2] * Rat(b)[2]>>)

BDiv(a, n) == Round(<<Rat(a)[1], Rat(a)[2] * n>>)

\* np.add.reduce over fewer than 8 floats: a running sum, left to right
RECURSIVE BSum(_, _)
BSum(s, acc) == IF s = <<>> THEN acc ELSE BSum(Tail(s), BAdd(acc, Head(s)))

\* np.var(s): arrmean = sum(arr) / n; x = arr - arrmean; sum(x * x) / n
np_var(s) ==
    LET arr     == [i \in 1..Len(s) |-> Round(<<s[i], 1>>)]
        arrmean == BDiv(BSum(arr, Round(<<0, 1>>)), Len(s))
        x       == [i \in 1..Len(s) |-> BSub(arr[i], arrmean)]
        xx      == [i \in 1..Len(s) |-> BMul(x[i], x[i])]
    IN  BDiv(BSum(xx, Round(<<0, 1>>)), Len(s))

\* np.var(s) < thr in floating point, thr in hundredths of a squared unit
VarBelowRounded(s, thr) ==
    /\ Len(s) > 0
    /\ AllFinite(s)
    /\ Rat(np_var(Raw(s)))[1] * 100 < thr.v * Rat(np_var(Raw(s)))[2]

\* The value check_convergence returns, with np.var in floating point
ConvergenceResultRounded ==
    IF Len(recent_metrics) < convergence_window
    THEN <<FALSE, "not_enough_data">>
    ELSE IF VarBelowRounded(recent_metrics, convergence_threshold)
    THEN <<TRUE, "converged">>
    ELSE <<FALSE, "not_converged">>

check_convergence_rounded ==
    /\ converged' = (converged \/ ConvergenceResultRounded[1])
    /\ ret' = [op |-> "check_convergence", val |-> ConvergenceResultRounded]
    /\ UNCHANGED <<monitorParams, monitorHistory, overfitting_detected,
                   anomaly_detected>>
    /\ UNCHANGED engVars

\* Values of Precision bits, and thresholds of 0.5, 1 and 2 squared units
RoundingValVals == {None, Fin(4), Fin(6), Fin(7)}

RoundingThresholdVals == {Fin(50), Fin(100), Fin(200)}

RoundingInit ==
    /\ patience = 2
    /\ overfitting_threshold = Fin(1)
    /\ convergence_threshold \in RoundingThresholdVals
    /\ convergence_window = 3
    /\ epochs = <<>>
    /\ train_metrics = <<>>
    /\ val_metrics = <<>>
    /\ learning_rates = <<>>
    /\ best_val_metric = None
    /\ best_epoch = 0
    /\ epochs_since_improvement = 0
    /\ converged = FALSE
    /\ overfitting_detected = FALSE
    /\ anomaly_detected = FALSE
    /\ recent_metrics = <<>>
    /\ EngineConstructed(NoPolicy)
    /\ ret = NoCall

LogRounded ==
    /\ Len(epochs) < MaxEpochs
    /\ \E v \in RoundingValVals : log_epoch(Len(epochs) + 1, Fin(5), v, None)

RoundingNext ==
    \/ LogRounded
    \/ check_convergence_rounded

RoundingSpec == RoundingInit /\ [][RoundingNext]_vars

\* The last n values of a list
LastVals(s, n) == IF n >= Len(s) THEN s ELSE SubSeq(s, Len(s) - n + 1, Len(s))

Identical(s) == \A i \in 1..Len(s) : s[i] = s[1]

\* C12: check_convergence returns False after fewer than convergence_window
\* val_metrics whatever the values; after exactly convergence_window
\* identical val_metrics it returns True for any positive
\* convergence_threshold; and with a full window it returns True iff the
\* variance of the window is strictly below convergence_threshold.
C12_WindowExact ==
    ret.op = "check_convergence" =>
        /\ Len(val_metrics) < convergence_window => ~ret.val[1]
        /\ (/\ Len(val_metrics) = convergence_window
            /\ Identical(val_metrics)
            /\ AllFinite(val_metrics)
            /\ convergence_threshold.v > 0) => ret.val[1]
        /\ Len(val_metrics) >= convergence_window =>
               (ret.val[1] <=>
                    VarBelowRounded(LastVals(val_metrics, convergence_window),
                                    convergence_threshold))

(***************************************************************************)
(* The train-val gap at its threshold (OverfitSpec)                        *)
(***************************************************************************)
\* Train and val values whose gaps are 0, 1 and 2 units, for a threshold of 1
OverfitTrainVals == {Fin(4), Fin(5)}

OverfitValVals == {None, Fin(3), Fin(4)}

OverfitInit ==
    /\ patience = 2
    /\ overfitting_threshold = Fin(1)
    /\ convergence_threshold = Fin(100)
    /\ convergence_window = 2
    /\ epochs = <<>>
    /\ train_metrics = <<>>
    /\ val_metrics = <<>>
    /\ learning_rates = <<>>
    /\ best_val_metric = None
    /\ best_epoch = 0
    /\ epochs_since_improvement = 0
    /\ converged = FALSE
    /\ overfitting_detected = FALSE
    /\ anomaly_detected = FALSE
    /\ recent_metrics = <<>>
    /\ EngineConstructed(NoPolicy)
    /\ ret = NoCall

LogOverfit ==
    /\ Len(epochs) < MaxEpochs
    /\ \E t \in OverfitTrainVals, v \in OverfitValVals :
           log_epoch(Len(epochs) + 1, t, v, None)

OverfitNext ==
    \/ LogOverfit
    \/ check_overfitting

OverfitSpec == OverfitInit /\ [][OverfitNext]_vars

\* The gap between the latest train value and the latest val value logged
LatestGap == Last(train_metrics).v - Last(val_metrics).v

InSeq(x, s) == \E i \in 1..Len(s) : s[i] = x

\* The val values number i and i+1 are numbers more than 0.5 apart
JumpAbove(i) ==
    /\ val_metrics[i].k = "fin"
    /\ val_metrics[i + 1].k = "fin"
    /\ \/ val_metrics[i + 1].v - val_metrics[i].v > 5
       \/ val_metrics[i].v - val_metrics[i + 1].v > 5

AnomalyTrainVals ==
    {Fin(5), NaN, PInf, NInf, Fin(10000000), Fin(10000001)}

AnomalyValVals == {None, Fin(5), NaN, PInf}

AnomalyInit ==
    /\ patience = 2
    /\ overfitting_threshold = Fin(1)
    /\ convergence_threshold = Fin(100)
    /\ convergence_window = 2
    /\ epochs = <<>>
    /\ train_metrics = <<>>
    /\ val_metrics = <<>>
    /\ learning_rates = <<>>
    /\ best_val_metric = None
    /\ best_epoch = 0
    /\ epochs_since_improvement = 0
    /\ converged = FALSE
    /\ overfitting_detected = FALSE
    /\ anomaly_detected = FALSE
    /\ recent_metrics = <<>>
    /\ EngineConstructed(NoPolicy)
    /\ ret = NoCall

LogAnomaly ==
    /\ Len(epochs) < MaxAnomalyEpochs
    /\ \E t \in AnomalyTrainVals, v \in AnomalyValVals :
           log_epoch(Len(epochs) + 1, t, v, None)

AnomalyNext ==
    \/ LogAnomaly
    \/ check_convergence
    \/ check_overfitting
    \/ check_anomalies
    \/ should_stop

AnomalySpec == AnomalyInit /\ [][AnomalyNext]_vars

\* The conditions on the latest values, and the issue each one is reported as
TrainIsNaN == train_metrics # <<>> /\ Last(train_metrics).k = "nan"

ValIsNaN == val_metrics # <<>> /\ Last(val_metrics).k = "nan"

TrainIsInf == train_metrics # <<>> /\ Last(train_metrics).k = "inf"

ValIsInf == val_metrics # <<>> /\ Last(val_metrics).k = "inf"

TrainExploding ==
    /\ train_metrics # <<>>
    /\ \/ Last(train_metrics).k = "inf"
       \/ /\ Last(train_metrics).k = "fin"
          /\ \/ Last(train_metrics).v > 10000000
             \/ Last(train_metrics).v < -10000000

BadValue == TrainIsNaN \/ ValIsNaN \/ TrainIsInf \/ ValIsInf \/ TrainExploding

Count(x, s) == Cardinality({i \in 1..Len(s) : s[i] = x})

\* Each condition that holds is listed once, and none that does not hold
ListsEachCondition(issues) ==
    /\ Count("nan_train", issues) = (IF TrainIsNaN THEN 1 ELSE 0)
    /\ Count("nan_val", issues) = (IF ValIsNaN THEN 1 ELSE 0)
    /\ Count("inf_train", issues) = (IF TrainIsInf THEN 1 ELSE 0)
    /\ Count("inf_val", issues) = (IF ValIsInf THEN 1 ELSE 0)
    /\ Count("exploding_train", issues) = (IF TrainExploding THEN 1 ELSE 0)

\* C15: whenever the latest train or val value is NaN or infinite, or the
\* latest train value is above 1e6 in absolute value, check_anomalies
\* returns True with one issue for each condition that holds, should_stop
\* returns True with the anomaly reason and those issues, and every query of
\* the monitor returns a result.
C15_BadValuesReported ==
    /\ ret.op = "check_anomalies" =>
           /\ ListsEachCondition(ret.val[2])
           /\ BadValue => ret.val[1]
    /\ ret.op = "should_stop" /\ BadValue =>
           /\ ret.val[1]
           /\ ret.val[2][1] = "anomalies"
           /\ ListsEachCondition(ret.val[2][2])
    /\ ret.op \in {"check_convergence", "check_overfitting", "check_anomalies",
                   "should_stop"} => ret.val[1] \in BOOLEAN

\* check_anomalies was asked with an infinite train value and a NaN val value
\* and listed three issues.
C15_Witness ==
    /\ ret.op = "check_anomalies"
    /\ TrainIsInf
    /\ ValIsNaN
    /\ ret.val[1]
    /\ Len(ret.val[2]) >= 3

(***************************************************************************)
(* The status snapshot and reset (StatusSpec)                              *)
(***************************************************************************)
\* The dict get_status returns; a key that is left out holds None
GetStatus ==
    [total_epochs             |-> Len(epochs),
     best_epoch               |-> best_epoch,
     best_val_metric          |-> best_val_metric,
     epochs_since_improvement |-> epochs_since_improvement,
     converged                |-> ConvergenceResult[1],
     convergence_reasoning    |-> ConvergenceResult[2],
     overfitting              |-> OverfittingResult[1],
     overfitting_reasoning    |-> OverfittingResult[2],
     has_anomaly              |-> AnomaliesResult[1],
     anomaly_issues           |-> AnomaliesResult[2],
     should_stop              |-> ShouldStopResult[1],
     stop_reasoning           |-> ShouldStopResult[2],
     latest_train_metric      |->
         IF train_metrics # <<>> THEN Last(train_metrics) ELSE None,
     latest_val_metric        |->
         IF val_metrics # <<>> THEN Last(val_metrics) ELSE None,
     latest_learning_rate     |->
         IF learning_rates # <<>> THEN Last(learning_rates) ELSE None]

\* get_status calls check_convergence, check_overfitting, check_anomalies
\* and should_stop, each of which sets its flag
get_status ==
    /\ converged' = (converged \/ ConvergenceResult[1])
    /\ overfitting_detected' = (overfitting_detected \/ OverfittingResult[1])
    /\ anomaly_detected' = (anomaly_detected \/ AnomaliesResult[1])
    /\ ret' = [op |-> "get_status", val |-> GetStatus]
    /\ UNCHANGED <<monitorParams, monitorHistory>>
    /\ UNCHANGED engVars

StatusInit ==
    /\ patience = 2
    /\ overfitting_threshold = Fin(1)
    /\ convergence_threshold = Fin(100)
    /\ convergence_window = 2
    /\ epochs = <<>>
    /\ train_metrics = <<>>
    /\ val_metrics = <<>>
    /\ learning_rates = <<>>
    /\ best_val_metric = None
    /\ best_epoch = 0
    /\ epochs_since_improvement = 0
    /\ converged = FALSE
    /\ overfitting_detected = FALSE
    /\ anomaly_detected = FALSE
    /\ recent_metrics = <<>>
    /\ EngineConstructed(NoPolicy)
    /\ ret = NoCall

StatusNext ==
    \/ LogEpoch
    \/ check_convergence
    \/ check_overfitting
    \/ check_anomalies
    \/ should_stop
    \/ get_status
    \/ reset

StatusSpec == StatusInit /\ [][StatusNext]_vars

Front(s) == SubSeq(s, 1, Len(s) - 1)

\* What a freshly constructed monitor tracks after being fed the val values
\* vals: the best value, the position of the sample that set it and the
\* number of val values logged since
RECURSIVE Track(_)
Track(vals) ==
    IF vals = <<>> THEN [best |-> None, at |-> 0, since |-> 0]
    ELSE LET before == Track(Front(vals))
         IN  IF before.at = 0 \/ FGt(Last(vals), before.best)
             THEN [best |-> Last(vals), at |-> Len(vals), since |-> 0]
             ELSE [best |-> before.best, at |-> before.at,
                   since |-> before.since + 1]

\* The fields of the monitor are those of a freshly constructed monitor fed
\* the samples now in its history
AsFresh ==
    /\ Len(train_metrics) = Len(epochs)
    /\ \A i \in 1..Len(epochs) : epochs[i] = i
    /\ recent_metrics = LastVals(val_metrics, convergence_window)
    /\ best_val_metric = Track(val_metrics).best
    /\ epochs_since_improvement = Track(val_metrics).since
    /\ IF Len(val_metrics) = Len(epochs)
       THEN best_epoch = Track(val_metrics).at
       ELSE best_epoch \in 1..Len(epochs) \/ val_metrics = <<>>
    /\ val_metrics = <<>> => best_epoch = 0

\* The convergence verdict of a fresh monitor fed the val values now logged
FreshConverged ==
    /\ Len(val_metrics) >= convergence_window
    /\ VarBelow(LastVals(val_metrics, convergence_window),
                convergence_threshold)

\* C16: after reset() and a sequence S of log_epoch calls, whatever was
\* logged and queried before the reset, the monitor's fields and the output
\* of get_status are those of a freshly constructed monitor with the same
\* parameters fed S: they are determined by the samples logged since the
\* reset alone.
C16_ResetRoundTrip ==
    /\ AsFresh
    /\ ret.op = "reset" => epochs = <<>> /\ val_metrics = <<>>
                              /\ learning_rates = <<>>
                              /\ ~converged /\ ~overfitting_detected
                              /\ ~anomaly_detected
    /\ ret.op = "get_status" =>
           /\ ret.val.total_epochs = Len(epochs)
           /\ ret.val.best_val_metric = Track(val_metrics).best
           /\ ret.val.epochs_since_improvement = Track(val_metrics).since
           /\ ret.val.best_epoch = best_epoch
           /\ ret.val.converged = FreshConverged
           /\ ret.val.should_stop =
                  (HasAnomaly \/ FreshConverged
                      \/ Track(val_metrics).since >= patience)
           /\ ret.val.latest_train_metric =
                  (IF epochs = <<>> THEN None ELSE Last(train_metrics))
           /\ ret.val.latest_val_metric =
                  (IF val_metrics = <<>> THEN None ELSE Last(val_metrics))

\* The status was taken of a monitor whose best value is not the latest one
\* and was set by the first sample of the present history.
C16_Witness ==
    /\ ret.op = "get_status"
    /\ ret.val.total_epochs = 2
    /\ Len(val_metrics) = 2
    /\ ret.val.best_epoch = 1
    /\ ret.val.epochs_since_improvement = 1
    /\ ret.val.best_val_metric = val_metrics[1]
    /\ ~isnan(val_metrics[1])

(***************************************************************************)
(* The best experiment and the stopping report (ReportSpec)                *)
(***************************************************************************)
\* A record that lacks the metric counted as holding 0
ValidExperiments_MissingAsZero(history, name) ==
    [i \in 1..Len(history) |->
        IF HasMetric(history[i].metrics, name) THEN history[i]
        ELSE [metrics |-> [n \in MetricNames |-> Fin(0)]]]

\* [exp for exp in experiment_history if metric_name in exp.get('metrics', {})]
RECURSIVE ValidExperiments(_, _)
ValidExperiments(history, name) ==
    IF history = <<>> THEN <<>>
    ELSE (IF HasMetric(Head(history).metrics, name)
          THEN <<Head(history)>> ELSE <<>>)
         \o ValidExperiments(Tail(history), name)

\* max(s, key=...) on the positions of a non-empty list of values: the first
\* position is kept until a later value is greater
RECURSIVE MaxAt(_)
MaxAt(values) ==
    IF Len(values) = 1 THEN 1
    ELSE IF FGt(Last(values), SubSeq(values, 1, Len(values) - 1)
                                  [MaxAt(SubSeq(values, 1, Len(values) - 1))])
    THEN Len(values)
    ELSE MaxAt(SubSeq(values, 1, Len(values) - 1))

\* get_best_experiment(experiment_history, metric_name): a record, or None
get_best_experiment(cfg, history, metric_name) ==
    IF history = <<>> THEN None
    ELSE LET name  == IF metric_name = NoMetric THEN TargetMetric(cfg)
                      ELSE metric_name
             valid == ValidExperiments(history, name)
         IN  IF valid = <<>> THEN None
             ELSE valid[MaxAt([i \in 1..Len(valid) |-> valid[i].metrics[name]])]

\* metric_values[-1] - metric_values[-2] in place of [-1] - [0]
ImprovementFromFirst_LastStep(metric_values) ==
    IF Len(metric_values) >= 2
    THEN FSub(metric_values[Len(metric_values)],
              metric_values[Len(metric_values) - 1])
    ELSE None

\* metric_values[-1] - metric_values[0] if len(metric_values) >= 2 else None
ImprovementFromFirst(metric_values) ==
    IF Len(metric_values) >= 2
    THEN FSub(metric_values[Len(metric_values)], metric_values[1])
    ELSE None

\* generate_stopping_report.  mean_value is the fraction <<sum, n>> and
\* std_value the fraction <<n * sum of squares - sum^2, n^2>> whose square
\* root np.std returns; both are None when no record has the metric.  A
\* report whose should_stop_campaign call raises is not returned.
generate_stopping_report(cfg, start_time, history, current_time) ==
    LET verdict == should_stop_campaign(cfg, start_time, history, current_time)
        metric_name   == TargetMetric(cfg)
        metric_values == ExtractMetric(history, metric_name)
        n == Len(metric_values)
    IN  IF verdict = Raised THEN [raised |-> "TypeError"]
        ELSE [should_stop        |-> verdict[1],
              reasoning          |-> verdict[2],
              next_action        |-> verdict[3],
              total_experiments  |-> Len(history),
              elapsed_time_hours |-> current_time - start_time,
              best_experiment    |-> get_best_experiment(cfg, history, NoMetric),
              statistics |->
                  [metric_name |-> metric_name,
                   best_value  |->
                       IF n > 0 THEN metric_values[MaxAt(metric_values)]
                       ELSE None,
                   mean_value  |->
                       IF n > 0 THEN <<SumSeq(Raw(metric_values)), n>>
                       ELSE <<>>,
                   std_value   |->
                       IF n > 0
                       THEN <<n * SumSq(Raw(metric_values))
                                - SumSeq(Raw(metric_values))
                                    * SumSeq(Raw(metric_values)), n * n>>
                       ELSE <<>>,
                   improvement_from_first |->
                       ImprovementFromFirst(metric_values)]]

GetBestExperiment ==
    /\ \E name \in {NoMetric} \cup MetricNames :
           ret' = [op  |-> "get_best_experiment",
                   val |-> get_best_experiment(config, experiment_history, name),
                   arg |-> name]
    /\ UNCHANGED engVars
    /\ UNCHANGED monVars

GenerateStoppingReport ==
    /\ ret' = [op  |-> "generate_stopping_report",
               val |-> generate_stopping_report(config, campaign_start_time,
                                                experiment_history, clock)]
    /\ UNCHANGED engVars
    /\ UNCHANGED monVars

\* The monitor an engine specification leaves untouched
MonitorIdle ==
    /\ patience = 1
    /\ overfitting_threshold = Fin(1)
    /\ convergence_threshold = Fin(100)
    /\ convergence_window = 2
    /\ epochs = <<>>
    /\ train_metrics = <<>>
    /\ val_metrics = <<>>
    /\ learning_rates = <<>>
    /\ best_val_metric = None
    /\ best_epoch = 0
    /\ epochs_since_improvement = 0
    /\ converged = FALSE
    /\ overfitting_detected = FALSE
    /\ anomaly_detected = FALSE
    /\ recent_metrics = <<>>

ReportInit ==
    /\ \E cfg \in PartialConfigs : EngineConstructed(cfg)
    /\ MonitorIdle
    /\ ret = NoCall

ReportNext ==
    \/ RunExperiment
    \/ Tick
    \/ ShouldStopCampaign
    \/ GetBestExperiment
    \/ GenerateStoppingReport

ReportSpec == ReportInit /\ [][ReportNext]_vars

\* The positions of the records that have the target metric
WithMetric ==
    {i \in 1..Len(experiment_history) :
        HasMetric(experiment_history[i].metrics, TargetMetric(config))}

MetricAt(i) == experiment_history[i].metrics[TargetMetric(config)]

\* x is a record of the history that has the target metric, and no record
\* that has it holds a greater value
IsBestRecord(x) ==
    \E i \in WithMetric :
        /\ experiment_history[i] = x
        /\ \A j \in WithMetric : ~FGt(MetricAt(j), MetricAt(i))

\* C17: get_best_experiment returns a record of the history that has the
\* target metric and whose value is the maximum among the records that have
\* it; records that lack the metric are never returned nor counted as zero;
\* it returns None for an empty history and for one in which no record has
\* the metric.
C17_BestExperiment ==
    ret.op = "get_best_experiment" =>
        IF WithMetric = {} THEN ret.val = None ELSE IsBestRecord(ret.val)

\* The best experiment was asked of a history whose first record lacks the
\* metric and whose other records hold values around zero.
C17_Witness ==
    /\ ret.op = "get_best_experiment"
    /\ Len(experiment_history) = 3
    /\ 1 \notin WithMetric
    /\ 2 \in WithMetric
    /\ 3 \in WithMetric
    /\ MetricAt(2) = Fin(0)
    /\ FGt(MetricAt(3), MetricAt(2))
    /\ ret.val = experiment_history[3]

Lowest(S) == CHOOSE i \in S : \A j \in S : i <= j

Highest(S) == CHOOSE i \in S : \A j \in S : i >= j

\* C18: the report agrees with the other operations on the same history:
\* should_stop, reasoning and next_action are should_stop_campaign's
\* verdict, best_experiment is get_best_experiment's result,
\* statistics.best_value is that record's value of the metric, and
\* improvement_from_first is the value of the most recent record that has
\* the metric minus the value of the first record that has it, or None when
\* fewer than two records have it.
C18_ReportConsistent ==
    ret.op = "generate_stopping_report" =>
        /\ <<ret.val.should_stop, ret.val.reasoning, ret.val.next_action>>
               = should_stop_campaign(config, campaign_start_time,
                                      experiment_history, clock)
        /\ ret.val.best_experiment
               = get_best_experiment(config, experiment_history, NoMetric)
        /\ IF WithMetric = {}
           THEN ret.val.best_experiment = None
                    /\ ret.val.statistics.best_value = None
           ELSE /\ IsBestRecord(ret.val.best_experiment)
                /\ ret.val.statistics.best_value
                       = ret.val.best_experiment.metrics[TargetMetric(config)]
        /\ IF Cardinality(WithMetric) < 2
           THEN ret.val.statistics.improvement_from_first = None
           ELSE ret.val.statistics.improvement_from_first
                    = Fin(MetricAt(Highest(WithMetric)).v
                              - MetricAt(Lowest(WithMetric)).v)

\* A report on a stopped campaign whose middle record lacks the metric and
\* whose latest value is below its first.
C18_Witness ==
    /\ ret.op = "generate_stopping_report"
    /\ Len(experiment_history) = 3
    /\ WithMetric = {1, 3}
    /\ FGt(MetricAt(1), MetricAt(3))
    /\ ret.val.should_stop
    /\ ret.val.statistics.improvement_from_first.v < 0
    /\ ret.val.statistics.best_value = MetricAt(1)

(***************************************************************************)
(* Policies with keys left out (TotalSpec)                                 *)
(***************************************************************************)
\* Policies whose blocks are absent, or enabled with their other keys absent
SparseConfigs ==
    [performance : {[enabled |-> True, metric |-> NoMetric, threshold |-> None],
                    [enabled |-> True, metric |-> "f1_score",
                     threshold |-> None],
                    [enabled |-> True, metric |-> NoMetric,
                     threshold |-> Fin(20)]},
     improvement : {EmptyImprovement,
                    [enabled |-> True, min_improvement_percent |-> None,
                     window_size |-> None]},
     convergence : {EmptyConvergence,
                    [enabled |-> True, max_variance |-> None,
                     window_size |-> None]},
     resources   : {EmptyResources,
                    [enabled |-> True, max_experiments |-> None,
                     max_time_hours |-> None]}]

TotalInit ==
    /\ \E cfg \in SparseConfigs : EngineConstructed(cfg)
    /\ MonitorIdle
    /\ ret = NoCall

TotalNext ==
    \/ RunExperiment
    \/ Tick
    \/ ShouldStopCampaign
    \/ ShouldStopExperiment
    \/ GetBestExperiment
    \/ GenerateStoppingReport

TotalSpec == TotalInit /\ [][TotalNext]_vars

\* C19: should_stop_experiment, should_stop_campaign, get_best_experiment
\* and generate_stopping_report return a result and never raise, for every
\* history whose records may lack the target metric and for every policy in
\* which a block or a key of an enabled block is absent.
C19_Total ==
    /\ ret.op \in {"should_stop_experiment", "should_stop_campaign"}
           => ret.val # Raised
    /\ ret.op = "generate_stopping_report" => ret.val # [raised |-> "TypeError"]
    /\ ret.op = "get_best_experiment" =>
           \/ ret.val = None
           \/ \E i \in 1..Len(experiment_history) :
                  ret.val = experiment_history[i]

(***************************************************************************)
(* Queries and the monitor's fields (StatusSpec)                           *)
(***************************************************************************)
Queries ==
    {"get_status", "check_convergence", "check_overfitting", "check_anomalies",
     "should_stop"}

\* C20: get_status, check_convergence, check_overfitting, check_anomalies
\* and should_stop leave every field of the monitor unchanged: the history,
\* the best value, the counters, the window and the converged, overfitting
\* and anomaly flags.
C20_QueriesPure == [][ret'.op \in Queries => UNCHANGED monVars]_vars

(***************************************************************************)
(* Query results as functions of the samples logged (StatusSpec)           *)
(***************************************************************************)
\* What each query answers for the samples now in the history, written
\* from the logged lists and the construction parameters alone
SampleConvergence ==
    IF Len(val_metrics) < convergence_window THEN <<FALSE, "not_enough_data">>
    ELSE IF FreshConverged THEN <<TRUE, "converged">>
    ELSE <<FALSE, "not_converged">>

SampleOverfitting ==
    IF val_metrics = <<>> \/ train_metrics = <<>>
    THEN <<FALSE, "not_enough_data">>
    ELSE IF FGt(FSub(train_metrics[Len(train_metrics)],
                     val_metrics[Len(val_metrics)]),
                overfitting_threshold)
    THEN <<TRUE, "overfitting">>
    ELSE <<FALSE, "no_overfitting">>

SuddenJump ==
    /\ Len(val_metrics) >= 2
    /\ FGt(FAbs(FSub(val_metrics[Len(val_metrics)],
                     val_metrics[Len(val_metrics) - 1])),
           SuddenChangeLimit)

SampleIssues ==
    Issue(TrainIsNaN, "nan_train") \o Issue(ValIsNaN, "nan_val")
    \o Issue(TrainIsInf, "inf_train") \o Issue(ValIsInf, "inf_val")
    \o Issue(SuddenJump, "sudden_change")
    \o Issue(TrainExploding, "exploding_train")

SampleShouldStop ==
    IF SampleIssues # <<>> THEN <<TRUE, <<"anomalies", SampleIssues>>>>
    ELSE IF SampleConvergence[1] THEN <<TRUE, <<"converged">>>>
    ELSE IF Track(val_metrics).since >= patience THEN <<TRUE, <<"patience">>>>
    ELSE <<FALSE, <<"continue">>>>

SampleStatus ==
    [total_epochs             |-> Len(epochs),
     best_epoch               |-> best_epoch,
     best_val_metric          |-> Track(val_metrics).best,
     epochs_since_improvement |-> Track(val_metrics).since,
     converged                |-> SampleConvergence[1],
     convergence_reasoning    |-> SampleConvergence[2],
     overfitting              |-> SampleOverfitting[1],
     overfitting_reasoning    |-> SampleOverfitting[2],
     has_anomaly              |-> SampleIssues # <<>>,
     anomaly_issues           |-> SampleIssues,
     should_stop              |-> SampleShouldStop[1],
     stop_reasoning           |-> SampleShouldStop[2],
     latest_train_metric      |->
         IF train_metrics = <<>> THEN None
         ELSE train_metrics[Len(train_metrics)],
     latest_val_metric        |->
         IF val_metrics = <<>> THEN None ELSE val_metrics[Len(val_metrics)],
     latest_learning_rate     |->
         IF learning_rates = <<>> THEN None
         ELSE learning_rates[Len(learning_rates)]]

QueryAnswersFromSamples ==
    /\ ret.op = "check_convergence" => ret.val = SampleConvergence
    /\ ret.op = "check_overfitting" => ret.val = SampleOverfitting
    /\ ret.op = "check_anomalies"
           => ret.val = <<SampleIssues # <<>>, SampleIssues>>
    /\ ret.op = "should_stop" => ret.val = SampleShouldStop
    /\ ret.op = "get_status" => ret.val = SampleStatus

\* C21: between two log_epoch calls every query (check_convergence,
\* check_overfitting, check_anomalies, should_stop, get_status) returns the
\* same value however many times and in whatever order the queries are
\* called: no query changes the logged samples or the values derived from
\* them by log_epoch, and each returned value is a function of the samples
\* logged since construction or the last reset, whatever flags earlier
\* queries have set.
C21_QueriesIdempotent ==
    /\ []QueryAnswersFromSamples
    /\ [][ret'.op \in Queries
              => UNCHANGED <<monitorParams, monitorHistory>>]_vars

\* check_convergence answered False for a window that is not converged
\* although an earlier query had set the converged flag.
C21_Witness ==
    /\ ret.op = "check_convergence"
    /\ ret.val = <<FALSE, "not_converged">>
    /\ converged
    /\ Len(val_metrics) = 3

(***************************************************************************)
(* The best value (MonitorSpec)                                            *)
(***************************************************************************)
\* m is a maximum of the values s: one of them, and at least every value
\* of s that is a number or an infinity
IsMaximumOf(m, s) ==
    /\ InSeq(m, s)
    /\ \A i \in 1..Len(s) : ~isnan(s[i]) => FGe(m, s[i])

\* The first position of x in s
FirstAt(x, s) ==
    CHOOSE i \in 1..Len(s) : s[i] = x /\ \A j \in 1..(i - 1) : s[j] # x

\* C22: after any sequence of log_epoch calls, NaN and infinite val values
\* included, best_val_metric is None iff no val_metric has been logged, and
\* otherwise is the maximum val_metric logged, best_epoch being the epoch at
\* which that maximum was first logged.
C22_BestIsMaximum ==
    /\ IsNone(best_val_metric) <=> val_metrics = <<>>
    /\ val_metrics # <<>> =>
           /\ IsMaximumOf(best_val_metric, val_metrics)
           /\ Len(val_metrics) = Len(epochs)
                  => best_epoch = epochs[FirstAt(best_val_metric, val_metrics)]

(***************************************************************************)
(* The convergence window (WindowSpec)                                     *)
(***************************************************************************)
\* Window capacities, the empty window included
WindowSizes == {0, 1, 2, 3}

WindowValVals == {None, Fin(0), Fin(5), NaN}

WindowInit ==
    /\ patience = 2
    /\ overfitting_threshold = Fin(1)
    /\ convergence_threshold = Fin(100)
    /\ convergence_window \in WindowSizes
    /\ epochs = <<>>
    /\ train_metrics = <<>>
    /\ val_metrics = <<>>
    /\ learning_rates = <<>>
    /\ best_val_metric = None
    /\ best_epoch = 0
    /\ epochs_since_improvement = 0
    /\ converged = FALSE
    /\ overfitting_detected = FALSE
    /\ anomaly_detected = FALSE
    /\ recent_metrics = <<>>
    /\ EngineConstructed(NoPolicy)
    /\ ret = NoCall

LogWindow ==
    /\ Len(epochs) < MaxEpochs + 1
    /\ \E v \in WindowValVals, lr \in LoopLrVals :
           log_epoch(Len(epochs) + 1, Fin(5), v, lr)

WindowNext ==
    \/ LogWindow
    \/ check_convergence
    \/ reset

WindowSpec == WindowInit /\ [][WindowNext]_vars

\* C23: in every reachable state the convergence window holds at most
\* convergence_window values and is exactly the most recent
\* min(n, convergence_window) of the n val_metrics logged since construction
\* or the last reset, in the order logged: the oldest value is evicted first.
C23_WindowIsRecent ==
    /\ Len(recent_metrics) <= convergence_window
    /\ Len(recent_metrics) =
           (IF Len(val_metrics) < convergence_window
            THEN Len(val_metrics) ELSE convergence_window)
    /\ \A i \in 1..Len(recent_metrics) :
           recent_metrics[i] =
               val_metrics[Len(val_metrics) - Len(recent_metrics) + i]

\* A window of capacity 2 after three val values and one sample without a
\* val value: the first val value has been evicted.
C23_Witness ==
    /\ convergence_window = 2
    /\ Len(val_metrics) = 3
    /\ val_metrics[1] # val_metrics[3]
    /\ val_metrics[1] # val_metrics[2]
    /\ recent_metrics = <<val_metrics[2], val_metrics[3]>>
    /\ Len(epochs) = 4

(***************************************************************************)
(* The engine and the data it is given (FrameSpec)                         *)
(***************************************************************************)
\* evaluate_performance_threshold: `best_metric >= threshold`
evaluate_performance_threshold(best_metric, threshold) ==
    FGe(best_metric, threshold)

\* evaluate_improvement_rate: True if the improvement is acceptable
evaluate_improvement_rate(cfg, recent_experiments, min_improvement, window) ==
    ~check_improvement_rate(cfg, recent_experiments, min_improvement,
                            window)[1]

evaluate_convergence(cfg, recent_experiments, max_variance, window) ==
    check_campaign_convergence(cfg, recent_experiments, max_variance,
                               window)[1]

\* evaluate_resource_limits called without a config of its own:
\* <<limits_exceeded, reasons>>
evaluate_resource_limits(cfg, start_time, num_experiments, now) ==
    LET max_experiments == cfg.resources.max_experiments
        max_hours       == cfg.resources.max_time_hours
        reasons ==
            Issue(/\ Truthy(max_experiments)
                  /\ num_experiments >= max_experiments.v,
                  "max_experiments")
            \o Issue(Truthy(max_hours) /\ now - start_time >= max_hours.v,
                     "max_time")
    IN  <<Len(reasons) > 0, reasons>>

EvaluatePerformanceThreshold ==
    /\ \E best_metric \in MetricVals \ {None} :
           ret' = [op  |-> "evaluate_performance_threshold",
                   val |-> evaluate_performance_threshold(best_metric,
                                                          Fin(10)),
                   arg |-> best_metric]
    /\ UNCHANGED engVars
    /\ UNCHANGED monVars

EvaluateImprovementRate ==
    /\ ret' = [op  |-> "evaluate_improvement_rate",
               val |-> evaluate_improvement_rate(config, experiment_history,
                                                 Fin(100), 2)]
    /\ UNCHANGED engVars
    /\ UNCHANGED monVars

EvaluateConvergence ==
    /\ ret' = [op  |-> "evaluate_convergence",
               val |-> evaluate_convergence(config, experiment_history,
                                            Fin(2500), 2)]
    /\ UNCHANGED engVars
    /\ UNCHANGED monVars

EvaluateResourceLimits ==
    /\ ret' = [op  |-> "evaluate_resource_limits",
               val |-> evaluate_resource_limits(config, campaign_start_time,
                                                Len(experiment_history),
                                                clock)]
    /\ UNCHANGED engVars
    /\ UNCHANGED monVars

FrameInit ==
    /\ \E cfg \in TrainingConfigs : EngineConstructed(cfg)
    /\ MonitorIdle
    /\ ret = NoCall

FrameNext ==
    \/ RunExperiment
    \/ Tick
    \/ ShouldStopCampaign
    \/ ShouldStopExperiment
    \/ GetBestExperiment
    \/ GenerateStoppingReport
    \/ EvaluatePerformanceThreshold
    \/ EvaluateImprovementRate
    \/ EvaluateConvergence
    \/ EvaluateResourceLimits

FrameSpec == FrameInit /\ [][FrameNext]_vars

EngineOps ==
    {"should_stop_campaign", "should_stop_experiment", "get_best_experiment",
     "generate_stopping_report", "evaluate_performance_threshold",
     "evaluate_improvement_rate", "evaluate_convergence",
     "evaluate_resource_limits"}

\* The last result is the one the operation gives for the history, policy,
\* start time and clock as they are now
ResultFromArguments ==
    /\ ret.op = "should_stop_campaign" =>
           ret.val = should_stop_campaign(config, campaign_start_time,
                                          experiment_history, clock)
    /\ ret.op = "should_stop_experiment" =>
           ret.val \in {should_stop_experiment(config, ret.arg, m) :
                           m \in {None, Fin(5)}}
    /\ ret.op = "get_best_experiment" =>
           ret.val = get_best_experiment(config, experiment_history, ret.arg)
    /\ ret.op = "generate_stopping_report" =>
           ret.val = generate_stopping_report(config, campaign_start_time,
                                              experiment_history, clock)

\* C24: no operation of the engine (should_stop_experiment,
\* should_stop_campaign, get_best_experiment, generate_stopping_report and
\* the evaluate_* helpers) changes the experiment history it is given, the
\* policy configuration or the campaign start time, and each result is
\* determined by the arguments, the configuration and the clock: the engine
\* keeps nothing of earlier calls.
C24_EngineReadOnly ==
    /\ []ResultFromArguments
    /\ [][ret'.op \in EngineOps
              => UNCHANGED <<config, campaign_start_time,
                             experiment_history>>]_vars

\* should_stop_campaign answered STOP on a history of three records that is
\* still whole.
C24_Witness ==
    /\ ret.op = "should_stop_campaign"
    /\ ret.val[1]
    /\ Len(experiment_history) = 3
    /\ experiment_history[1] # experiment_history[3]
    /\ clock > campaign_start_time

(***************************************************************************)
(* The improvement window (SuffixSpec)                                     *)
(***************************************************************************)
\* Policies with the improvement block alone, for windows of 0, 1 and 2
SuffixConfigs ==
    {[performance |-> EmptyPerformance,
      improvement |-> [enabled |-> True, min_improvement_percent |-> Fin(100),
                       window_size |-> Fin(w)],
      convergence |-> EmptyConvergence,
      resources   |-> EmptyResources] : w \in {0, 1, 2}}

SuffixInit ==
    /\ \E cfg \in SuffixConfigs : EngineConstructed(cfg)
    /\ MonitorIdle
    /\ ret = NoCall

SuffixNext ==
    \/ RunExperiment
    \/ ShouldStopCampaign

SuffixSpec == SuffixInit /\ [][SuffixNext]_vars

\* C25: the improvement-rate verdict of should_stop_campaign depends only
\* on the last window_size records: on a history of at least window_size
\* records the verdict is the one the improvement check gives for the last
\* window_size records alone, for every configured window_size, so the
\* records before them never influence it.
C25_LastWindowOnly ==
    Campaign /\ Len(experiment_history) >= ImprovementWindow =>
        (ret.val = <<TRUE, "low_improvement", "TRY_DIFFERENT_MODEL">>
            <=> ImprovementCheck(config,
                                 LastN(experiment_history, ImprovementWindow)))

(***************************************************************************)
(* The performance stop over time (ReportSpec)                             *)
(***************************************************************************)
\* What should_stop_campaign returns for the history and the clock as they
\* are now is the performance stop
StopsOnPerformance ==
    should_stop_campaign(config, campaign_start_time, experiment_history,
                         clock) = <<TRUE, "performance", "STOP">>

\* C26: with the performance block enabled, once should_stop_campaign
\* returns (True, ..., STOP) for a history because a record meets the
\* threshold, it returns (True, ..., STOP) for every history obtained by
\* appending further records, at any later time.
C26_PerformanceStopPermanent ==
    /\ [](Campaign /\ StopsOnPerformance
              => ret.val = <<TRUE, "performance", "STOP">>)
    /\ [][StopsOnPerformance => StopsOnPerformance']_vars

\* should_stop_campaign still answers STOP after two records below the
\* threshold were appended to one that met it, and time has passed.
C26_Witness ==
    /\ Campaign
    /\ ret.val = <<TRUE, "performance", "STOP">>
    /\ Len(experiment_history) = 3
    /\ MeetsThreshold(experiment_history[1].metrics,
                      config.performance.metric, config.performance.threshold)
    /\ \A i \in 2..3 :
           ~MeetsThreshold(experiment_history[i].metrics,
                           config.performance.metric,
                           config.performance.threshold)
    /\ clock > campaign_start_time

(***************************************************************************)
(* Levels 2 and 3 on the performance target (EngineSpec)                   *)
(***************************************************************************)
\* The history has a record whose metrics mapping is the one last given to
\* should_stop_experiment
HistoryHasJudgedMetrics ==
    \E i \in 1..Len(experiment_history) :
        experiment_history[i].metrics = ret.arg

\* C27: whenever should_stop_experiment(metrics) returns
\* (True, ..., STOP_CAMPAIGN), should_stop_campaign returns (True, ..., STOP)
\* for every history that contains a record whose metrics mapping is that
\* metrics, under the same configuration and at any time.
C27_LevelsAgree ==
    /\ ret.op = "should_stop_experiment"
    /\ ret.val[1]
    /\ ret.val[3] = "STOP_CAMPAIGN"
    /\ HistoryHasJudgedMetrics
    => LET campaign == should_stop_campaign(config, campaign_start_time,
                                            experiment_history, clock)
       IN  campaign[1] /\ campaign[3] = "STOP"

\* should_stop_experiment answered STOP_CAMPAIGN for metrics exactly at the
\* threshold, which the first of three records carries and the last does
\* not.
C27_Witness ==
    /\ ret.op = "should_stop_experiment"
    /\ ret.val = <<TRUE, "performance", "STOP_CAMPAIGN">>
    /\ ret.arg[config.performance.metric] = config.performance.threshold
    /\ Len(experiment_history) = 3
    /\ experiment_history[1].metrics = ret.arg
    /\ experiment_history[2].metrics # ret.arg
    /\ experiment_history[3].metrics # ret.arg
    /\ Enabled(config.improvement)

(***************************************************************************)
(* Verdict and next action (TotalSpec)                                     *)
(***************************************************************************)
CampaignActions == {"STOP", "TRY_DIFFERENT_MODEL", "CONTINUE"}

ExperimentActions == {"STOP_CAMPAIGN", "CONTINUE"}

\* C28: for every input should_stop_campaign returns a next_action in
\* {STOP, TRY_DIFFERENT_MODEL, CONTINUE} and should_stop_experiment one in
\* {STOP_CAMPAIGN, CONTINUE}, and in both the boolean verdict is False if
\* and only if next_action is CONTINUE.
C28_VerdictMatchesAction ==
    /\ ret.op = "should_stop_campaign" =>
           /\ ret.val[3] \in CampaignActions
           /\ ~ret.val[1] <=> ret.val[3] = "CONTINUE"
    /\ ret.op = "should_stop_experiment" =>
           /\ ret.val[3] \in ExperimentActions
           /\ ~ret.val[1] <=> ret.val[3] = "CONTINUE"

(***************************************************************************)
(* Early stopping of a training loop (LiveSpec)                            *)
(*                                                                         *)
(* The loop logs a sample with a val value, asks should_stop, and goes on  *)
(* to the next sample only when the answer is False.                       *)
(***************************************************************************)
LivePatienceVals == {0, 1, 2}

\* A finite set of val values, no two of them more than 0.5 apart
LiveValVals == {Fin(0), Fin(3), Fin(5)}

LiveInit ==
    /\ patience \in LivePatienceVals
    /\ overfitting_threshold = Fin(1)
    /\ convergence_threshold = Fin(100)
    /\ convergence_window = 10
    /\ epochs = <<>>
    /\ train_metrics = <<>>
    /\ val_metrics = <<>>
    /\ learning_rates = <<>>
    /\ best_val_metric = None
    /\ best_epoch = 0
    /\ epochs_since_improvement = 0
    /\ converged = FALSE
    /\ overfitting_detected = FALSE
    /\ anomaly_detected = FALSE
    /\ recent_metrics = <<>>
    /\ EngineConstructed(NoPolicy)
    /\ ret = NoCall

LogLive ==
    /\ ret = NoCall \/ (ret.op = "should_stop" /\ ~ret.val[1])
    /\ Len(epochs) < MaxLiveEpochs
    /\ \E v \in LiveValVals : log_epoch(Len(epochs) + 1, Fin(5), v, None)

QueryLive ==
    /\ ret.op = "log_epoch"
    /\ should_stop

LiveNext ==
    \/ LogLive
    \/ QueryLive

\* The loop keeps running: it logs the next sample and asks after each one
LiveSpec ==
    /\ LiveInit
    /\ [][LiveNext]_vars
    /\ WF_vars(LogLive)
    /\ WF_vars(QueryLive)

Stopped == ret.op = "should_stop" /\ ret.val[1]

\* C29: in a run where every log_epoch call carries a val_metric drawn from
\* a finite set and should_stop is asked after each sample, should_stop
\* eventually returns True, and does so at the latest once `patience`
\* consecutive samples have failed to strictly exceed the best value, for
\* every patience >= 0.
C29_EventuallyStops ==
    /\ [](ret.op = "should_stop" /\ Track(val_metrics).since >= patience
              => ret.val[1])
    /\ <>Stopped

\* With a patience of 2 the loop stopped on patience after the seventh
\* sample: each of the three values was logged twice before the next one
\* exceeded it, and the last one a third time.
C29_Witness ==
    /\ Stopped
    /\ ret.val = <<TRUE, <<"patience">>>>
    /\ patience = 2
    /\ Len(val_metrics) = 7
    /\ best_epoch = 5

(***************************************************************************)
(* Samples without a val value (WindowSpec)                                *)
(***************************************************************************)
\* The step is a log_epoch call that carried no val_metric
LoggedWithoutVal ==
    /\ ret'.op = "log_epoch"
    /\ Len(val_metrics') = Len(val_metrics)

\* C30: a log_epoch call without a val_metric appends only to the epoch and
\* train-metric histories, and to the learning-rate history when a learning
\* rate is given: best_val_metric, best_epoch, epochs_since_improvement, the
\* val-metric history and the convergence window are left unchanged, so the
\* sample neither advances nor resets patience and leaves the convergence
\* verdict as it was.
C30_NoValNoEffect ==
    [][LoggedWithoutVal =>
          /\ Front(epochs') = epochs
          /\ Front(train_metrics') = train_metrics
          /\ learning_rates' = learning_rates
                 \/ Front(learning_rates') = learning_rates
          /\ UNCHANGED <<val_metrics, recent_metrics, best_val_metric,
                         best_epoch, epochs_since_improvement>>
          /\ UNCHANGED <<converged, overfitting_detected, anomaly_detected>>
          /\ SampleConvergence' = SampleConvergence
          /\ (Track(val_metrics).since >= patience)'
                 = (Track(val_metrics).since >= patience)]_vars

\* The second sample was logged without a val value, with a learning rate:
\* the best value is still that of the first sample and patience has not
\* moved.
C30_Witness ==
    /\ ret.op = "log_epoch"
    /\ Len(epochs) = 2
    /\ Len(val_metrics) = 1
    /\ Len(learning_rates) = 2
    /\ best_epoch = 1
    /\ epochs_since_improvement = 0
    /\ recent_metrics = val_metrics

====
